---- MODULE Spec2Model ----
(***************************************************************************)
(* A model of zero-virtual's windowed pagination engine:                   *)
(*   - pagingReducer      (src/src/react/paging-reducer.ts)                *)
(*   - useRows            (src/unnamed/part_005, the use-rows.ts module)   *)
(*   - useZeroVirtualizer (src/src/react/use-zero-virtualizer.ts)          *)
(*                                                                         *)
(* Rows have a fixed height, so scroll offsets and the viewport height are *)
(* counted in rows.  The page size of the code (MIN_PAGE_SIZE = 100) is    *)
(* scaled down: MIN_PAGE_SIZE is twice the bound HalfMinPageSize, so that  *)
(* it stays even as the code requires.                                     *)
(***************************************************************************)
EXTENDS Integers, Sequences, FiniteSets, TLC

\* ------------------------------------------------------------------ bounds
\* Half of the (scaled) minimum page size.
HalfMinPageSize == 2
\* The largest data set: row ids are 1..numRows, numRows \in 0..MaxRows.
MaxRows == 5
\* The longest list and the page sizes of the specification of useRows alone.
MaxListRows == 8
PageSizes == {2 * HalfMinPageSize, 2 * HalfMinPageSize + 2}
\* The reducer-only specification draws its numbers from 0..MaxNum and queues
\* up to MaxPending actions before a reduction.
MaxNum == 3
MaxPending == 2
\* The tallest scroll element and the tallest row of the page size
\* specification, in pixels.
MaxHeight == 24
MaxRowHeight == 5
\* The tallest viewport, in rows.
MaxViewportRows == 1
\* A render is not followed further once estimatedTotal has passed MaxTotal.
MaxTotal == 12

\* --------------------------------------------------------------- constants
MIN_PAGE_SIZE == 2 * HalfMinPageSize
NUM_ROWS_FOR_LOADING_SKELETON == 1
\* The caller's overscan option (scaled like the page size).
overscan == 0

\* "undefined" / null for a row, a cursor, an id (rows and ids are 1, 2, ...).
Undefined == 0

Max(a, b) == IF a >= b THEN a ELSE b
Min(a, b) == IF a <= b THEN a ELSE b

VARIABLES
    numRows,            \* the unchanging data set: rows 1..numRows
    state,              \* PagingState as committed by the last render
    pending,            \* actions dispatched by effects, reduced by the next render
    pageSize,           \* useState(MIN_PAGE_SIZE)
    listContextParams,  \* prop: the caller's current list-context
    permalinkID,        \* prop: 0 when absent; only the initializer and a render
                        \* under a changed list-context read it, so it is kept
                        \* as 0 otherwise
    slots,              \* the three useQuery hooks: query key and result status
    scrollOffset,       \* virtualizer.scrollOffset, in rows
    viewportRows,       \* height of the scroll element, in rows
    scrollRectHeight,   \* virtualizer.scrollRect.height in pixels, 0 before it is
                        \* measured
    rowHeight,          \* estimateSize(0), in pixels
    mounted,            \* FALSE until the first render has run its effects
    failed,             \* TRUE once an assertion has thrown
    saved,              \* the snapshot the caller holds (NoSnapshot: none), emitted
                        \* under the list-context it was taken in
    timer               \* the persistence effect's timeout: cleared, or armed
                        \* with the values its callback closes over

vars == <<numRows, state, pending, pageSize, listContextParams,
          permalinkID, slots, scrollOffset, viewportRows, scrollRectHeight, rowHeight,
          mounted, failed, saved, timer>>

Contexts == {1, 2}

\* ----------------------------------------------------------------- anchors
\* Anchor<TStartRow>: startRow is a row id (0: undefined), id the permalink id
\* (0: none).  tag is history: the list-context whose rows seeded the cursor
\* (0 for an anchor without cursor).  Every record of the module lists its
\* fields in the order the names first occur in the module, TLC's normal form.
Anchor(kind, index, startRow, id, tag) ==
    [kind |-> kind, index |-> index, startRow |-> startRow, id |-> id, tag |-> tag]

TOP_ANCHOR == Anchor("forward", 0, Undefined, 0, 0)

createPermalinkAnchor(id) ==
    Anchor("permalink", NUM_ROWS_FOR_LOADING_SKELETON, Undefined, id, 0)

\* ----------------------------------------------------------------- reducer
\* PagingAction, as one record shape; unused fields hold defaults.
Action(type, newTotal, offset, anchor, hrs, hre, ctx) ==
    [listContextParams |-> ctx, type |-> type, newTotal |-> newTotal, offset |-> offset,
     anchor |-> anchor, hasReachedStart |-> hrs, hasReachedEnd |-> hre]

UpdateEstimatedTotal(n) == Action("UPDATE_ESTIMATED_TOTAL", n, 0, TOP_ANCHOR, FALSE, FALSE, 0)
ReachedStart == Action("REACHED_START", 0, 0, TOP_ANCHOR, FALSE, FALSE, 0)
ReachedEnd == Action("REACHED_END", 0, 0, TOP_ANCHOR, FALSE, FALSE, 0)
UpdateAnchor(a) == Action("UPDATE_ANCHOR", 0, 0, a, FALSE, FALSE, 0)
ShiftAnchorDown(offset, a) == Action("SHIFT_ANCHOR_DOWN", 0, offset, a, FALSE, FALSE, 0)
ResetToTop(offset) == Action("RESET_TO_TOP", 0, offset, TOP_ANCHOR, FALSE, FALSE, 0)
ScrollAdjusted == Action("SCROLL_ADJUSTED", 0, 0, TOP_ANCHOR, FALSE, FALSE, 0)
PagingComplete == Action("PAGING_COMPLETE", 0, 0, TOP_ANCHOR, FALSE, FALSE, 0)
ResetState(total, hrs, hre, a, ctx) == Action("RESET_STATE", total, 0, a, hrs, hre, ctx)

PagingState(total, hrs, hre, a, ctx, phase, adj) ==
    [hasReachedStart |-> hrs, hasReachedEnd |-> hre, estimatedTotal |-> total,
     queryAnchor |-> [listContextParams |-> ctx, anchor |-> a],
     pagingPhase |-> phase, pendingScrollAdjustment |-> adj]

\* case 'UPDATE_ESTIMATED_TOTAL'
\* Variant: the candidate overwrites the estimate instead of raising it.
onUpdateEstimatedTotal_overwrites(s, a) == [s EXCEPT !.estimatedTotal = a.newTotal]

onUpdateEstimatedTotal(s, a) ==
    LET newTotal == Max(s.estimatedTotal, a.newTotal)
    IN  IF newTotal = s.estimatedTotal THEN s
        ELSE [s EXCEPT !.estimatedTotal = newTotal]

\* case 'REACHED_START', case 'REACHED_END'
onReachedStart(s, a) == [s EXCEPT !.hasReachedStart = TRUE]
onReachedEnd(s, a) == [s EXCEPT !.hasReachedEnd = TRUE]

\* case 'UPDATE_ANCHOR'
\* Variant: re-anchoring forgets that the end was reached.
onUpdateAnchor_dropsEnd(s, a) ==
    [s EXCEPT !.queryAnchor.anchor = a.anchor, !.hasReachedEnd = FALSE]

onUpdateAnchor(s, a) == [s EXCEPT !.queryAnchor.anchor = a.anchor]

\* case 'SHIFT_ANCHOR_DOWN'
\* Variant: the shift leaves the phase as it is.
onShiftAnchorDown_keepsPhase(s, a) ==
    [s EXCEPT !.queryAnchor.anchor = a.anchor,
              !.pendingScrollAdjustment = a.offset]

onShiftAnchorDown(s, a) ==
    [s EXCEPT !.queryAnchor.anchor = a.anchor,
              !.pendingScrollAdjustment = a.offset,
              !.pagingPhase = "adjusting"]

\* case 'RESET_TO_TOP'
onResetToTop(s, a) ==
    [s EXCEPT !.queryAnchor.anchor = Anchor("forward", 0, Undefined, 0, 0),
              !.pendingScrollAdjustment = a.offset,
              !.pagingPhase = "adjusting"]

\* case 'SCROLL_ADJUSTED'
\* Variant: the compensation is folded in with the wrong sign.
onScrollAdjusted_subtracts(s, a) ==
    [s EXCEPT !.estimatedTotal = s.estimatedTotal - s.pendingScrollAdjustment,
              !.pendingScrollAdjustment = 0,
              !.pagingPhase = "skipping"]

onScrollAdjusted(s, a) ==
    [s EXCEPT !.estimatedTotal = s.estimatedTotal + s.pendingScrollAdjustment,
              !.pendingScrollAdjustment = 0,
              !.pagingPhase = "skipping"]

\* case 'PAGING_COMPLETE'
onPagingComplete(s, a) == [s EXCEPT !.pagingPhase = "idle"]

\* case 'RESET_STATE': pendingScrollAdjustment is kept (...state).
onResetState(s, a) ==
    [s EXCEPT !.estimatedTotal = a.newTotal,
              !.hasReachedStart = a.hasReachedStart,
              !.hasReachedEnd = a.hasReachedEnd,
              !.queryAnchor = [listContextParams |-> a.listContextParams,
                               anchor |-> a.anchor],
              !.pagingPhase = "skipping"]

pagingReducer(s, a) ==
    CASE a.type = "UPDATE_ESTIMATED_TOTAL" -> onUpdateEstimatedTotal(s, a)
      [] a.type = "REACHED_START" -> onReachedStart(s, a)
      [] a.type = "REACHED_END" -> onReachedEnd(s, a)
      [] a.type = "UPDATE_ANCHOR" -> onUpdateAnchor(s, a)
      [] a.type = "SHIFT_ANCHOR_DOWN" -> onShiftAnchorDown(s, a)
      [] a.type = "RESET_TO_TOP" -> onResetToTop(s, a)
      [] a.type = "SCROLL_ADJUSTED" -> onScrollAdjusted(s, a)
      [] a.type = "PAGING_COMPLETE" -> onPagingComplete(s, a)
      [] a.type = "RESET_STATE" -> onResetState(s, a)
      [] OTHER -> s

\* useReducer: the dispatched actions are reduced in dispatch order.
RECURSIVE Reduce(_, _)
Reduce(s, q) == IF q = <<>> THEN s ELSE Reduce(pagingReducer(s, Head(q)), Tail(q))

\* ---------------------------------------------------------------- the data
\* The host's queries (src/demo/queries.ts): list-context 1 orders the rows by
\* id ascending, list-context 2 descending.
Pos(ctx, row) == IF ctx = 1 THEN row ELSE numRows + 1 - row
RowAtPos(ctx, p) == IF ctx = 1 THEN p ELSE numRows + 1 - p

\* getPageQuery(limit, start, dir): up to limit rows after (forward) or before
\* (backward, nearest first) the cursor, exclusive of it.
PageRows(ctx, limit, start, dir) ==
    IF dir = "forward"
    THEN LET p == IF start = Undefined THEN 0 ELSE Pos(ctx, start)
             n == Max(0, Min(limit, numRows - p))
         IN  [i \in 1..n |-> RowAtPos(ctx, p + i)]
    ELSE LET p == IF start = Undefined THEN numRows + 1 ELSE Pos(ctx, start)
             n == Max(0, Min(limit, p - 1))
         IN  [i \in 1..n |-> RowAtPos(ctx, p - i)]

\* getSingleQuery(id): the row with that id, or undefined.
SingleRow(id) == IF id \in 1..numRows THEN id ELSE Undefined

\* ------------------------------------------------------------------ useQuery
\* One useQuery hook: the query it subscribes to and the status of its result.
\*   "null"     no query (useQuery(null)): data undefined, type unknown
\*   "none"     no data yet, type unknown
\*   "rows"     the data has arrived, type still unknown
\*   "complete" the data has arrived, type complete
Key(q, ctx, limit, start, dir, id) ==
    [id |-> id, ctx |-> ctx, q |-> q, limit |-> limit, start |-> start, dir |-> dir]
NullKey == Key("null", 0, 0, 0, "forward", 0)
getSingleQuery(id) == Key("single", 0, 0, 0, "forward", id)
getPageQuery(ctx, limit, start, dir) == Key("page", ctx, limit, start, dir, 0)

NullSlot == [key |-> NullKey, st |-> "null"]
HasData(slot) == slot.st \in {"rows", "complete"}
IsComplete(slot) == slot.st = "complete"

\* The data of a hook: a row (or undefined) for the single query, an array for
\* a page query (empty until the data arrives).
SingleData(slot) ==
    IF slot.key.q = "single" /\ HasData(slot) THEN SingleRow(slot.key.id) ELSE Undefined
PageData(slot) ==
    IF slot.key.q = "page" /\ HasData(slot)
    THEN PageRows(slot.key.ctx, slot.key.limit, slot.key.start, slot.key.dir)
    ELSE <<>>

\* ------------------------------------------------------------------- useRows
toStartRow(row) == row

IsPermalink(anchor) == anchor.kind = "permalink"
HalfPageSize(ps) == ps \div 2

PermalinkNotFound(anchor, s) ==
    IsPermalink(anchor) /\ IsComplete(s[1]) /\ SingleData(s[1]) = Undefined

\* Hook 1: the single-item lookup.
Query1(anchor) == IF IsPermalink(anchor) THEN getSingleQuery(anchor.id) ELSE NullKey

\* Hook 2: the page before (permalink) or the main page (forward/backward).
Query2(anchor, ps, ctx, slot1) ==
    LET s == <<slot1>>
        singleStart == SingleData(slot1)
    IN  IF IsPermalink(anchor)
        THEN IF ~PermalinkNotFound(anchor, s) /\ singleStart # Undefined
             THEN getPageQuery(ctx, HalfPageSize(ps) + 1, toStartRow(singleStart), "backward")
             ELSE NullKey
        ELSE getPageQuery(ctx, ps + 1, anchor.startRow, anchor.kind)

\* Hook 3: the page after (permalink only).
\* Variant: the page after the target is requested with the limit of the
\* page before it.
Query3_symmetric(anchor, ps, ctx, slot1) ==
    LET s == <<slot1>>
        singleStart == SingleData(slot1)
    IN  IF IsPermalink(anchor) /\ ~PermalinkNotFound(anchor, s) /\ singleStart # Undefined
        THEN getPageQuery(ctx, HalfPageSize(ps) + 1, toStartRow(singleStart), "forward")
        ELSE NullKey

Query3(anchor, ps, ctx, slot1) ==
    LET s == <<slot1>>
        singleStart == SingleData(slot1)
    IN  IF IsPermalink(anchor) /\ ~PermalinkNotFound(anchor, s) /\ singleStart # Undefined
        THEN getPageQuery(ctx, HalfPageSize(ps), toStartRow(singleStart), "forward")
        ELSE NullKey

\* A hook keeps its result while its query is the same; a new query starts in
\* the status the store has for it (init).
\* Variant: a hook that has a result keeps it when its query changes.
Sub_keepsOldResult(old, key, init) ==
    IF old.key = key \/ HasData(old) THEN old
    ELSE [key |-> key, st |-> IF key = NullKey THEN "null" ELSE init]

Sub(old, key, init) ==
    IF old.key = key THEN old
    ELSE [key |-> key, st |-> IF key = NullKey THEN "null" ELSE init]

Subscribe(old, anchor, ps, ctx, init) ==
    LET s1 == Sub(old[1], Query1(anchor), init)
    IN  <<s1, Sub(old[2], Query2(anchor, ps, ctx, s1), init),
              Sub(old[3], Query3(anchor, ps, ctx, s1), init)>>

\* The statuses the queries a render newly subscribes to may start in: the
\* store has them already (complete), or it does not.
InitStatus(old, new) == IF old = new THEN {"none"} ELSE {"none", "complete"}

Keys(s) == <<s[1].key, s[2].key, s[3].key>>

RowsBeforeSize(ps, s) == Min(Len(PageData(s[2])), HalfPageSize(ps))
RowsAfterSize(ps, s) == Min(Len(PageData(s[3])), HalfPageSize(ps) - 1)
\* Variant: a page of exactly pageSize records counts as having more rows.
HasMoreRows_atPageSize(anchor, ps, s) == ~IsPermalink(anchor) /\ Len(PageData(s[2])) >= ps

HasMoreRows(anchor, ps, s) == ~IsPermalink(anchor) /\ Len(PageData(s[2])) > ps
PaginatedRowsLength(anchor, ps, s) ==
    IF HasMoreRows(anchor, ps, s) THEN ps ELSE Len(PageData(s[2]))

\* rowAt(index): the row id at a global index, or Undefined.
\* The permalink branch: the target at the anchor index, the page after it
\* above, the page before it below.
\* Variant: the target row is served only once both pages are complete.
PermalinkRowAt_needsPages(anchor, ps, s, index) ==
    LET anchorIndex == anchor.index
    IN  IF index = anchorIndex
        THEN IF IsComplete(s[2]) /\ IsComplete(s[3]) THEN SingleData(s[1]) ELSE Undefined
        ELSE IF index > anchorIndex
             THEN IF s[3].st = "null" THEN Undefined
                  ELSE LET i == index - anchorIndex - 1
                       IN  IF i < RowsAfterSize(ps, s) THEN PageData(s[3])[i + 1] ELSE Undefined
             ELSE IF s[2].st = "null" THEN Undefined
                  ELSE LET i == anchorIndex - index - 1
                       IN  IF i < RowsBeforeSize(ps, s) THEN PageData(s[2])[i + 1] ELSE Undefined

PermalinkRowAt(anchor, ps, s, index) ==
    LET anchorIndex == anchor.index
    IN  IF index = anchorIndex THEN SingleData(s[1])
        ELSE IF index > anchorIndex
             THEN IF s[3].st = "null" THEN Undefined
                  ELSE LET i == index - anchorIndex - 1
                       IN  IF i < RowsAfterSize(ps, s) THEN PageData(s[3])[i + 1] ELSE Undefined
             ELSE IF s[2].st = "null" THEN Undefined
                  ELSE LET i == anchorIndex - index - 1
                       IN  IF i < RowsBeforeSize(ps, s) THEN PageData(s[2])[i + 1] ELSE Undefined

\* The forward branch.
\* Variant: the look-ahead row is served as well.
ForwardRowAt_servesLookAhead(anchor, ps, s, index) ==
    LET i == index - anchor.index
    IN  IF i >= 0 /\ i < Len(PageData(s[2]))
        THEN PageData(s[2])[i + 1] ELSE Undefined

ForwardRowAt(anchor, ps, s, index) ==
    LET i == index - anchor.index
    IN  IF i >= 0 /\ i < PaginatedRowsLength(anchor, ps, s)
        THEN PageData(s[2])[i + 1] ELSE Undefined

\* Variant: the backward page is indexed in the order of the list.
BackwardRowAt_ascending(anchor, ps, s, index) ==
    LET i == index - (anchor.index - PaginatedRowsLength(anchor, ps, s))
    IN  IF i >= 0 /\ i < PaginatedRowsLength(anchor, ps, s)
        THEN PageData(s[2])[i + 1] ELSE Undefined

BackwardRowAt(anchor, ps, s, index) ==
    LET i == anchor.index - index - 1
    IN  IF i >= 0 /\ i < PaginatedRowsLength(anchor, ps, s)
        THEN PageData(s[2])[i + 1] ELSE Undefined

rowAt(anchor, ps, s, index) ==
    IF IsPermalink(anchor) THEN PermalinkRowAt(anchor, ps, s, index)
    ELSE IF anchor.kind = "forward" THEN ForwardRowAt(anchor, ps, s, index)
    ELSE BackwardRowAt(anchor, ps, s, index)

\* complete of the permalink branch.
\* Variant: complete waits for the page hooks also when the lookup found nothing.
PermalinkComplete_waitsForPages(anchor, s) ==
    IsComplete(s[1]) /\ IsComplete(s[2]) /\ IsComplete(s[3])

\* Variant: complete follows the lookup alone.
PermalinkComplete_lookupOnly(anchor, s) == IsComplete(s[1])

PermalinkComplete(anchor, s) ==
    IsComplete(s[1])
    /\ (PermalinkNotFound(anchor, s) \/ (IsComplete(s[2]) /\ IsComplete(s[3])))

\* The window metadata useRows returns.
useRows(anchor, ps, s) ==
    LET anchorIndex == anchor.index
        half == HalfPageSize(ps)
        typedSingleRow == SingleData(s[1])
        notFound == PermalinkNotFound(anchor, s)
        rowsBeforeLength == Len(PageData(s[2]))
        rowsAfterLength == Len(PageData(s[3]))
        complete2 == IsComplete(s[2])
        complete3 == IsComplete(s[3])
        hasMoreRows == HasMoreRows(anchor, ps, s)
        n == PaginatedRowsLength(anchor, ps, s)
    IN  IF IsPermalink(anchor)
        THEN [rowsLength |-> IF notFound THEN 0
                             ELSE RowsBeforeSize(ps, s) + RowsAfterSize(ps, s)
                                  + (IF typedSingleRow # Undefined THEN 1 ELSE 0),
              complete |-> PermalinkComplete(anchor, s),
              rowsEmpty |-> notFound \/ typedSingleRow = Undefined
                            \/ (RowsBeforeSize(ps, s) = 0 /\ RowsAfterSize(ps, s) = 0),
              atStart |-> notFound \/ (complete2 /\ rowsBeforeLength <= half),
              atEnd |-> notFound \/ (complete3 /\ rowsAfterLength <= half - 1),
              firstRowIndex |-> IF notFound THEN anchorIndex
                                ELSE anchorIndex - RowsBeforeSize(ps, s),
              permalinkNotFound |-> notFound]
        ELSE IF anchor.kind = "forward"
        THEN [rowsLength |-> n,
              complete |-> complete2,
              rowsEmpty |-> Len(PageData(s[2])) = 0,
              atStart |-> anchor.startRow = Undefined \/ anchorIndex = 0,
              atEnd |-> complete2 /\ ~hasMoreRows,
              firstRowIndex |-> anchorIndex,
              permalinkNotFound |-> FALSE]
        ELSE [rowsLength |-> n,
              complete |-> complete2,
              rowsEmpty |-> Len(PageData(s[2])) = 0,
              atStart |-> complete2 /\ ~hasMoreRows,
              atEnd |-> FALSE,
              firstRowIndex |-> anchorIndex - n,
              permalinkNotFound |-> FALSE]

\* The assertions of useRows: an even page size for a permalink anchor, a
\* cursor for a backward anchor.
useRowsAsserts(anchor, ps) ==
    /\ IsPermalink(anchor) => ps % 2 = 0
    /\ anchor.kind = "backward" => anchor.startRow # Undefined

\* -------------------------------------------------------- useZeroVirtualizer
\* PermalinkHistoryState; some = FALSE stands for null / undefined.
Snapshot(anchor, scrollTop, total, hrs, hre) ==
    [anchor |-> anchor, hasReachedStart |-> hrs, hasReachedEnd |-> hre,
     estimatedTotal |-> total, scrollTop |-> scrollTop, some |-> TRUE]
NoSnapshot ==
    [anchor |-> TOP_ANCHOR, hasReachedStart |-> FALSE, hasReachedEnd |-> FALSE,
     estimatedTotal |-> 0, scrollTop |-> 0, some |-> FALSE]
\* What the caller holds: a snapshot and the list-context it was emitted under;
\* used once the caller has passed a snapshot back to the hook.
NoSaved == [ctx |-> 0, snap |-> NoSnapshot, used |-> FALSE]
UsedSaved == [ctx |-> 0, snap |-> NoSnapshot, used |-> TRUE]

\* The useReducer initializer.
\* Variant: a permalink id takes precedence over a restored snapshot's anchor.
InitialState_permalinkFirst(ctx, pid, permalinkState) ==
    LET anchor == IF pid # 0 THEN createPermalinkAnchor(pid)
                  ELSE IF permalinkState.some THEN permalinkState.anchor ELSE TOP_ANCHOR
    IN  PagingState(
            IF permalinkState.some THEN permalinkState.estimatedTotal
            ELSE NUM_ROWS_FOR_LOADING_SKELETON,
            IF permalinkState.some THEN permalinkState.hasReachedStart ELSE FALSE,
            IF permalinkState.some THEN permalinkState.hasReachedEnd ELSE FALSE,
            anchor, ctx, "idle", 0)

InitialState(ctx, pid, permalinkState) ==
    LET anchor == IF permalinkState.some THEN permalinkState.anchor
                  ELSE IF pid # 0 THEN createPermalinkAnchor(pid) ELSE TOP_ANCHOR
    IN  PagingState(
            IF permalinkState.some THEN permalinkState.estimatedTotal
            ELSE NUM_ROWS_FOR_LOADING_SKELETON,
            IF permalinkState.some THEN permalinkState.hasReachedStart ELSE FALSE,
            IF permalinkState.some THEN permalinkState.hasReachedEnd ELSE FALSE,
            anchor, ctx, "idle", 0)

\* The virtualizer's initialOffset, in rows.
initialOffset(permalinkState, anchor) ==
    IF permalinkState.some THEN permalinkState.scrollTop
    ELSE IF anchor.kind = "permalink" THEN anchor.index ELSE 0

isListContextCurrent(st, ctx) == st.queryAnchor.listContextParams = ctx

\* The anchor handed to useRows (useMemo).
\* Variant: the state's anchor is used whatever list-context it belongs to.
anchorOf_keepsOldAnchor(st, ctx, pid) == st.queryAnchor.anchor

anchorOf(st, ctx, pid) ==
    IF isListContextCurrent(st, ctx) THEN st.queryAnchor.anchor
    ELSE IF pid # 0 THEN createPermalinkAnchor(pid) ELSE TOP_ANCHOR

newEstimatedTotal(w) == w.firstRowIndex + w.rowsLength

\* The virtualizer's count option.
Count(st, w) ==
    Max(st.estimatedTotal, newEstimatedTotal(w))
    + (IF ~w.atEnd THEN NUM_ROWS_FOR_LOADING_SKELETON ELSE 0)

\* virtualizer.getVirtualItems(): the rendered index range, empty while there
\* is nothing to render or the scroll element has not been measured.
HasVirtualItems(count, vrows) == count > 0 /\ vrows > 0
FirstItem(count, scroll, vrows) ==
    Max(0, Max(0, Min(scroll, count - 1)) - overscan)
LastItem(count, scroll, vrows) ==
    Min(count - 1, Max(Max(0, Min(scroll, count - 1)), scroll + vrows - 1) + overscan)

\* The scroll element keeps its offset within the content.
ClampScroll(x, count, vrows) ==
    IF vrows = 0 THEN Max(0, x) ELSE Max(0, Min(x, Max(0, count - vrows)))

\* Variant: an odd number is taken as it is.
makeEven_keepsOdd(n) == n

makeEven(n) == IF n % 2 = 0 THEN n ELSE n + 1
getNearPageEdgeThreshold(ps) == (ps + 9) \div 10
\* Variant: the target index is not clamped to the window.
toBoundIndex_unclamped(targetIndex, firstRowIndex, rowsLength) == targetIndex

toBoundIndex(targetIndex, firstRowIndex, rowsLength) ==
    IF rowsLength = 0 THEN firstRowIndex
    ELSE Max(firstRowIndex, Min(firstRowIndex + rowsLength - 1, targetIndex))

\* Math.ceil(a / b) for a >= 0, b > 0.
Ceil(a, b) == (a + b - 1) \div b

\* The page size effect: enough rows to fill the viewport three times.
\* PageSizeFor takes the minimum page size and Math.ceil(height / estimateSize(0)).
\* Variant: the tripled number of rows is not made even.
PageSizeFor_notEven(minimum, rows) == Max(minimum, rows * 3)

PageSizeFor(minimum, rows) == Max(minimum, makeEven(rows * 3))
TargetPageSize(vrows) == PageSizeFor(MIN_PAGE_SIZE, vrows)
newPageSize(height, size) ==
    IF height > 0 THEN PageSizeFor(MIN_PAGE_SIZE, Ceil(height, size)) ELSE MIN_PAGE_SIZE

\* Layout effect: apply a pending scroll adjustment.
AdjustEffect(run, st) ==
    IF run /\ st.pendingScrollAdjustment # 0 THEN <<ScrollAdjusted>> ELSE <<>>

\* Layout effect: the list-context changed, replace the state.
ResetEffect(run, st, ctx, pid, permalinkState) ==
    IF run /\ ~isListContextCurrent(st, ctx)
    THEN IF permalinkState.some
         THEN <<ResetState(permalinkState.estimatedTotal, permalinkState.hasReachedStart,
                           permalinkState.hasReachedEnd, permalinkState.anchor, ctx)>>
         ELSE IF pid # 0
         THEN <<ResetState(NUM_ROWS_FOR_LOADING_SKELETON, FALSE, FALSE,
                           createPermalinkAnchor(pid), ctx)>>
         ELSE <<ResetState(0, TRUE, FALSE, TOP_ANCHOR, ctx)>>
    ELSE <<>>

\* Whether the two layout effects run: on mount and when a dependency differs
\* from the previous render's.
RunAdjust(first, prevSt, st) ==
    first \/ prevSt.pendingScrollAdjustment # st.pendingScrollAdjustment
RunReset(first, prevSt, prevCtx, prevPid, st, ctx, pid, permalinkState) ==
    \/ first
    \/ isListContextCurrent(prevSt, prevCtx) # isListContextCurrent(st, ctx)
    \/ prevPid # pid \/ prevCtx # ctx \/ permalinkState.some

\* The scroll offset after the two layout effects.
\* Variant: the adjust effect dispatches scrollAdjusted without scrolling.
LayoutScroll_ignoresAdjustment(runAdjust, runReset, st, ctx, pid, permalinkState, scroll, count, vrows) ==
    IF runReset /\ ~isListContextCurrent(st, ctx)
    THEN IF permalinkState.some THEN ClampScroll(permalinkState.scrollTop, count, vrows)
         ELSE IF pid # 0 THEN ClampScroll(NUM_ROWS_FOR_LOADING_SKELETON, count, vrows)
         ELSE ClampScroll(0, count, vrows)
    ELSE ClampScroll(scroll, count, vrows)

LayoutScroll(runAdjust, runReset, st, ctx, pid, permalinkState, scroll, count, vrows) ==
    LET s1 == IF runAdjust /\ st.pendingScrollAdjustment # 0
              THEN ClampScroll(scroll + st.pendingScrollAdjustment, count, vrows)
              ELSE ClampScroll(scroll, count, vrows)
    IN  IF runReset /\ ~isListContextCurrent(st, ctx)
        THEN IF permalinkState.some THEN ClampScroll(permalinkState.scrollTop, count, vrows)
             ELSE IF pid # 0 THEN ClampScroll(NUM_ROWS_FOR_LOADING_SKELETON, count, vrows)
             ELSE ClampScroll(0, count, vrows)
        ELSE s1

ReachedStartEffect(run, w) == IF run /\ w.atStart THEN <<ReachedStart>> ELSE <<>>
ReachedEndEffect(run, w) == IF run /\ w.atEnd THEN <<ReachedEnd>> ELSE <<>>

\* Variant: the estimate is advanced to the window's length.
TotalEffect_lengthOnly(run, st, w) ==
    IF run /\ w.complete /\ w.rowsLength > st.estimatedTotal
    THEN <<UpdateEstimatedTotal(w.rowsLength)>> ELSE <<>>

\* Variant: the estimate is advanced from a window that is not complete.
TotalEffect_ignoresComplete(run, st, w) ==
    IF run /\ newEstimatedTotal(w) > st.estimatedTotal
    THEN <<UpdateEstimatedTotal(newEstimatedTotal(w))>> ELSE <<>>

TotalEffect(run, st, w) ==
    IF run /\ w.complete /\ newEstimatedTotal(w) > st.estimatedTotal
    THEN <<UpdateEstimatedTotal(newEstimatedTotal(w))>> ELSE <<>>

\* The offset of RESET_TO_TOP.
\* Variant: the compensation also takes a placeholder row off.
ResetToTopOffset_withPlaceholder(w) == -w.firstRowIndex - NUM_ROWS_FOR_LOADING_SKELETON

ResetToTopOffset(w) == -w.firstRowIndex

\* Effect: settle the compensation phases and keep the window's first index
\* at or above 0.
\* Variant: the effect does not wait for a pending adjustment to be applied.
ShiftEffect_ignoresPending(run, st, ctx, anchor, w) ==
    IF ~run \/ w.rowsEmpty \/ ~isListContextCurrent(st, ctx) THEN <<>>
    ELSE IF st.pagingPhase = "skipping" /\ st.pendingScrollAdjustment = 0
    THEN <<PagingComplete>>
    ELSE IF w.firstRowIndex < 0
    THEN LET placeholderRows == IF ~w.atStart THEN NUM_ROWS_FOR_LOADING_SKELETON ELSE 0
             offset == -w.firstRowIndex + placeholderRows
         IN  <<ShiftAnchorDown(offset, [anchor EXCEPT !.index = anchor.index + offset])>>
    ELSE IF w.atStart /\ w.firstRowIndex > 0
    THEN <<ResetToTop(ResetToTopOffset(w))>>
    ELSE <<>>

ShiftEffect(run, st, ctx, anchor, w) ==
    IF ~run \/ w.rowsEmpty \/ ~isListContextCurrent(st, ctx) THEN <<>>
    ELSE IF st.pagingPhase = "skipping" /\ st.pendingScrollAdjustment = 0
    THEN <<PagingComplete>>
    ELSE IF st.pendingScrollAdjustment # 0 THEN <<>>
    ELSE IF w.firstRowIndex < 0
    THEN LET placeholderRows == IF ~w.atStart THEN NUM_ROWS_FOR_LOADING_SKELETON ELSE 0
             offset == -w.firstRowIndex + placeholderRows
         IN  <<ShiftAnchorDown(offset, [anchor EXCEPT !.index = anchor.index + offset])>>
    ELSE IF w.atStart /\ w.firstRowIndex > 0
    THEN <<ResetToTop(ResetToTopOffset(w))>>
    ELSE <<>>

\* updateAnchorForEdge of the edge-detection effect.
\* Variant: the new anchor's index is the seed record's own index.
EdgeAnchor_atSeedIndex(anchor, ps, s, ctx, w, targetIndex, type, indexOffset) ==
    LET index == toBoundIndex(targetIndex, w.firstRowIndex, w.rowsLength)
        startRow == rowAt(anchor, ps, s, index)
    IN  Anchor(type, index, startRow, 0,
               IF startRow = Undefined THEN 0 ELSE ctx)

EdgeAnchor(anchor, ps, s, ctx, w, targetIndex, type, indexOffset) ==
    LET index == toBoundIndex(targetIndex, w.firstRowIndex, w.rowsLength)
        startRow == rowAt(anchor, ps, s, index)
    IN  Anchor(type, index + indexOffset, startRow, 0,
               IF startRow = Undefined THEN 0 ELSE ctx)

\* Effect: edge-triggered re-anchoring.  EdgeCase names the branch taken.
\* Variant: edge detection does not wait for the phase to be idle.
EdgeCase_ignoresPhase(st, ctx, ps, w, count, scroll, vrows) ==
    LET t == getNearPageEdgeThreshold(ps)
        distanceFromStart == FirstItem(count, scroll, vrows) - w.firstRowIndex
        distanceFromEnd == w.firstRowIndex + w.rowsLength - LastItem(count, scroll, vrows)
    IN  IF \/ ~isListContextCurrent(st, ctx)
           \/ ~HasVirtualItems(count, vrows)
           \/ ~w.complete
           \/ st.pendingScrollAdjustment # 0
        THEN "skip"
        ELSE IF w.atStart /\ w.firstRowIndex # 0 THEN "top"
        ELSE IF ~w.atStart /\ distanceFromStart <= t THEN "backward"
        ELSE IF ~w.atEnd /\ distanceFromEnd <= t THEN "forward"
        ELSE "none"

EdgeCase(st, ctx, ps, w, count, scroll, vrows) ==
    LET t == getNearPageEdgeThreshold(ps)
        distanceFromStart == FirstItem(count, scroll, vrows) - w.firstRowIndex
        distanceFromEnd == w.firstRowIndex + w.rowsLength - LastItem(count, scroll, vrows)
    IN  IF \/ ~isListContextCurrent(st, ctx)
           \/ ~HasVirtualItems(count, vrows)
           \/ ~w.complete
           \/ st.pagingPhase # "idle"
           \/ st.pendingScrollAdjustment # 0
        THEN "skip"
        ELSE IF w.atStart /\ w.firstRowIndex # 0 THEN "top"
        ELSE IF ~w.atStart /\ distanceFromStart <= t THEN "backward"
        ELSE IF ~w.atEnd /\ distanceFromEnd <= t THEN "forward"
        ELSE "none"

EdgeEffect(st, ctx, anchor, ps, s, w, count, scroll, vrows) ==
    LET t == getNearPageEdgeThreshold(ps)
        c == EdgeCase(st, ctx, ps, w, count, scroll, vrows)
    IN  IF c = "top" THEN <<UpdateAnchor(TOP_ANCHOR)>>
        ELSE IF c = "backward"
        THEN <<UpdateAnchor(EdgeAnchor(anchor, ps, s, ctx, w,
                    LastItem(count, scroll, vrows) + 2 * t, "backward", 0))>>
        ELSE IF c = "forward"
        THEN <<UpdateAnchor(EdgeAnchor(anchor, ps, s, ctx, w,
                    FirstItem(count, scroll, vrows) - 2 * t, "forward", 1))>>
        ELSE <<>>

\* assert(startRow !== undefined || type === 'forward')
EdgeAssert(acts) ==
    \A i \in 1..Len(acts) :
        acts[i].anchor.kind = "backward" => acts[i].anchor.startRow # Undefined

\* The persistence effect.  Its cleanup clears the timeout of its previous
\* run; the effect then returns early when the state belongs to another
\* list-context, and otherwise arms a timeout whose callback closes over the
\* render's anchor, estimate and flags.  age is the time the timeout has been
\* armed for, in ticks; it fires at DEBOUNCE_TICKS (the 100 ms of setTimeout).
\* scroll is the effect's dependency virtualizer.scrollOffset: the offset the
\* hook last rendered with.
DEBOUNCE_TICKS == 1

Timer(anchor, total, hrs, hre, scroll) ==
    [anchor |-> anchor, hasReachedStart |-> hrs, hasReachedEnd |-> hre,
     estimatedTotal |-> total, scroll |-> scroll, armed |-> TRUE, age |-> 0]
Cleared(scroll) ==
    [anchor |-> TOP_ANCHOR, hasReachedStart |-> FALSE, hasReachedEnd |-> FALSE,
     estimatedTotal |-> 0, scroll |-> scroll, armed |-> FALSE, age |-> 0]
NoTimer == Cleared(0)

\* The effect's dependencies against the previous render's.
RunPersistence(first, prevSt, prevCtx, prevAnchor, prevScroll, st, ctx, anchor, scroll) ==
    \/ first
    \/ prevAnchor # anchor
    \/ prevScroll # scroll
    \/ prevSt.estimatedTotal # st.estimatedTotal
    \/ prevSt.hasReachedStart # st.hasReachedStart
    \/ prevSt.hasReachedEnd # st.hasReachedEnd
    \/ isListContextCurrent(prevSt, prevCtx) # isListContextCurrent(st, ctx)

\* Variant: the effect arms the timeout whatever list-context the state
\* belongs to.
PersistenceEffect_ignoresContext(run, prevTimer, st, ctx, anchor, scroll) ==
    IF ~run THEN prevTimer
    ELSE Timer(anchor, st.estimatedTotal, st.hasReachedStart, st.hasReachedEnd, scroll)

PersistenceEffect(run, prevTimer, st, ctx, anchor, scroll) ==
    IF ~run THEN prevTimer
    ELSE IF ~isListContextCurrent(st, ctx) THEN Cleared(scroll)
    ELSE Timer(anchor, st.estimatedTotal, st.hasReachedStart, st.hasReachedEnd, scroll)

\* ------------------------------------------------------------ a render cycle
AnchorTouched(q) ==
    \E i \in 1..Len(q) :
        q[i].type \in {"UPDATE_ANCHOR", "SHIFT_ANCHOR_DOWN", "RESET_TO_TOP", "RESET_STATE"}

\* The actions one render's effects dispatch, in the order the effects run:
\* the layout effects first, then the passive effects in declaration order.
\* An effect runs on mount and whenever one of its dependencies differs from
\* the previous render's (prevSt, prevAnchor, prevW).  The edge-detection
\* effect depends on virtualItems, a new array on every render when the
\* caller passes getRowKey (as the demo does), so it runs on every render.
Dispatches(first, prevSt, prevCtx, prevPid, prevAnchor, prevW, touched, st, ctx, pid, permalinkState, anchor, ps, s, w, count, scroll, vrows) ==
    LET runAdjust == RunAdjust(first, prevSt, st)
        runReset == RunReset(first, prevSt, prevCtx, prevPid, st, ctx, pid, permalinkState)
        runTotal == \/ first
                    \/ prevSt.estimatedTotal # st.estimatedTotal
                    \/ prevW.complete # w.complete
                    \/ newEstimatedTotal(prevW) # newEstimatedTotal(w)
        runShift == \/ first \/ touched \/ prevAnchor # anchor
                    \/ prevW.firstRowIndex # w.firstRowIndex
                    \/ prevW.atStart # w.atStart
                    \/ prevSt.pendingScrollAdjustment # st.pendingScrollAdjustment
                    \/ prevSt.pagingPhase # st.pagingPhase
                    \/ prevW.rowsEmpty # w.rowsEmpty
                    \/ isListContextCurrent(prevSt, prevCtx) # isListContextCurrent(st, ctx)
    IN  AdjustEffect(runAdjust, st)
        \o ResetEffect(runReset, st, ctx, pid, permalinkState)
        \o ReachedStartEffect(first \/ prevW.atStart # w.atStart, w)
        \o ReachedEndEffect(first \/ prevW.atEnd # w.atEnd, w)
        \o TotalEffect(runTotal, st, w)
        \o ShiftEffect(runShift, st, ctx, anchor, w)
        \o EdgeEffect(st, ctx, anchor, ps, s, w, count, scroll, vrows)

\* One render of the hook with the props (ctx, pid, permalinkState), the query
\* results slotsPre, the scroll offset scrollPre and the viewport vrows,
\* followed by its layout effects and effects.  The values of the render are
\* bound with \E over singleton sets, so that each is computed once.
Step(ctx, pid, permalinkState, slotsPre, scrollPre, vrows) ==
    \E st \in {Reduce(state, pending)},
       ps \in {IF mounted THEN Max(pageSize, TargetPageSize(viewportRows)) ELSE pageSize},
       prevAnchor \in {anchorOf(state, listContextParams, permalinkID)} :
    \E anchor \in {anchorOf(st, ctx, pid)},
       prevW \in {useRows(prevAnchor, pageSize, slots)} :
        IF ~useRowsAsserts(anchor, ps)
        THEN /\ failed' = TRUE
             /\ UNCHANGED <<numRows, state, pending, pageSize, listContextParams,
                            permalinkID, slots, scrollOffset, viewportRows,
                            scrollRectHeight, rowHeight, mounted, timer>>
        ELSE \E init \in InitStatus(Keys(slotsPre),
                                     Keys(Subscribe(slotsPre, anchor, ps, ctx, "none"))) :
             \E s \in {Subscribe(slotsPre, anchor, ps, ctx, init)} :
             \E w \in {useRows(anchor, ps, s)} :
             \E count \in {Count(st, w)} :
             \E acts \in {Dispatches(~mounted, state, listContextParams, permalinkID,
                                     prevAnchor, prevW, AnchorTouched(pending),
                                     st, ctx, pid, permalinkState, anchor, ps, s, w,
                                     count, scrollPre, vrows)} :
                /\ st.estimatedTotal <= MaxTotal
                /\ state' = st
                /\ pending' = acts
                /\ pageSize' = ps
                /\ listContextParams' = ctx
                /\ permalinkID' = IF isListContextCurrent(st, ctx) THEN 0 ELSE pid
                /\ slots' = s
                /\ viewportRows' = vrows
                /\ scrollRectHeight' = vrows * rowHeight
                /\ scrollOffset' =
                      LayoutScroll(RunAdjust(~mounted, state, st),
                                   RunReset(~mounted, state, listContextParams, permalinkID,
                                            st, ctx, pid, permalinkState),
                                   st, ctx, pid, permalinkState, scrollPre, count, vrows)
                /\ mounted' = TRUE
                /\ failed' = ~EdgeAssert(acts)
                /\ timer' = PersistenceEffect(RunPersistence(~mounted, state,
                                                             listContextParams, prevAnchor,
                                                             timer.scroll, st, ctx, anchor,
                                                             scrollPre),
                                              timer, st, ctx, anchor, scrollPre)
                /\ UNCHANGED <<numRows, rowHeight>>

\* The values of the last render.
CurAnchor == anchorOf(state, listContextParams, permalinkID)
CurWindow == useRows(CurAnchor, pageSize, slots)
CurCount == Count(state, CurWindow)

\* The hook's result total: a number, or undefined (defined = FALSE).
\* Variant: the total is exposed as soon as the end is reached.
total_dropsStart ==
    [defined |-> state.hasReachedEnd,
     value |-> IF state.hasReachedEnd THEN state.estimatedTotal ELSE 0]

total ==
    [defined |-> state.hasReachedStart /\ state.hasReachedEnd,
     value |-> IF state.hasReachedStart /\ state.hasReachedEnd
               THEN state.estimatedTotal ELSE 0]

\* ------------------------------------------------------------------- actions
\* The first render.
Mount ==
    /\ ~mounted /\ ~failed
    /\ Step(listContextParams, permalinkID, NoSnapshot, slots, scrollOffset, 0)
    /\ UNCHANGED saved

\* A render with nothing new but the dispatched actions.
Render ==
    /\ mounted /\ ~failed
    /\ Step(listContextParams, permalinkID, NoSnapshot, slots, scrollOffset, viewportRows)
    /\ UNCHANGED saved

\* Query results arrive: some hooks' results advance, the hook re-renders.
Advance(slot) ==
    IF slot.st = "none" THEN {slot, [slot EXCEPT !.st = "rows"], [slot EXCEPT !.st = "complete"]}
    ELSE IF slot.st = "rows" THEN {slot, [slot EXCEPT !.st = "complete"]}
    ELSE {slot}

QueryProgress ==
    /\ mounted /\ ~failed
    /\ \E s1 \in Advance(slots[1]), s2 \in Advance(slots[2]), s3 \in Advance(slots[3]) :
          /\ <<s1, s2, s3>> # slots
          /\ Step(listContextParams, permalinkID, NoSnapshot, <<s1, s2, s3>>,
                  scrollOffset, viewportRows)
    /\ UNCHANGED saved

\* The user scrolls: by a row, to the top or to the bottom.
Scroll ==
    /\ mounted /\ ~failed /\ viewportRows > 0 /\ saved = NoSaved
    /\ \E p \in {scrollOffset - 1, scrollOffset + 1, 0, Max(0, CurCount - viewportRows)} :
          /\ p # scrollOffset
          /\ p \in 0..Max(0, CurCount - viewportRows)
          /\ Step(listContextParams, permalinkID, NoSnapshot, slots, p, viewportRows)
    /\ UNCHANGED saved

\* The scroll element is measured or resized.
Resize ==
    /\ mounted /\ ~failed /\ ~saved.snap.some
    /\ \E h \in 1..MaxViewportRows :
          /\ h # viewportRows
          /\ Step(listContextParams, permalinkID, NoSnapshot, slots, scrollOffset, h)
    /\ UNCHANGED saved

\* The permalink ids the caller passes with a new list-context: none, the
\* first row's, one that does not exist.
NewPermalinkIDs == {0, 1, numRows + 1}

\* The caller changes the list-context (and perhaps the permalink id), without
\* a snapshot for the new one.
ChangeProps ==
    /\ mounted /\ ~failed
    /\ ~saved.used /\ (saved.snap.some => saved.ctx = listContextParams)
    /\ \E ctx \in Contexts, pid \in NewPermalinkIDs :
          /\ ctx # listContextParams
          /\ saved.snap.some => pid = 0
          /\ Step(ctx, pid, NoSnapshot, slots, scrollOffset, viewportRows)
    /\ UNCHANGED saved

\* Time passes while a timeout is armed.  A render follows a dispatch or a
\* change of the scroll offset well within a tick, so time passes once the
\* dispatched actions have been reduced and the offset has been rendered; it
\* is measured where a run can take its snapshot.
Tick ==
    /\ mounted /\ ~failed /\ pending = <<>> /\ timer.scroll = scrollOffset
    /\ timer.armed /\ timer.age < DEBOUNCE_TICKS
    /\ saved = NoSaved /\ numRows = MaxRows /\ listContextParams = 1
    /\ timer' = [timer EXCEPT !.age = @ + 1]
    /\ UNCHANGED <<numRows, state, pending, pageSize, listContextParams,
                   permalinkID, slots, scrollOffset, viewportRows, scrollRectHeight,
                   rowHeight, mounted, failed, saved>>

\* The timeout of the persistence effect fires: its callback calls
\* onPermalinkStateChange with the values it closes over and the scroll offset
\* it reads from the virtualizer, and the caller keeps the snapshot.  A run
\* takes one snapshot, over the largest data set.
EmitSnapshot ==
    /\ mounted /\ ~failed /\ pending = <<>>
    /\ timer.armed /\ timer.age = DEBOUNCE_TICKS
    /\ saved = NoSaved /\ numRows = MaxRows /\ listContextParams = 1
    /\ saved' = [ctx |-> listContextParams,
                 snap |-> Snapshot(timer.anchor, scrollOffset, timer.estimatedTotal,
                                   timer.hasReachedStart, timer.hasReachedEnd),
                 used |-> FALSE]
    /\ timer' = Cleared(timer.scroll)
    /\ UNCHANGED <<numRows, state, pending, pageSize, listContextParams,
                   permalinkID, slots, scrollOffset, viewportRows, scrollRectHeight,
                   rowHeight, mounted, failed>>

\* The caller goes back to the list-context of the snapshot it holds and
\* passes the snapshot as permalinkState.
Restore ==
    /\ mounted /\ ~failed /\ pending = <<>>
    /\ saved.snap.some /\ saved.ctx # listContextParams
    /\ \E pid \in {0, 1} :
          Step(saved.ctx, pid, saved.snap, slots, scrollOffset, viewportRows)
    /\ saved' = UsedSaved

\* The page is loaded again: a new instance of the hook is constructed with
\* the snapshot the caller holds for the list-context as permalinkState.
Remount ==
    /\ mounted /\ ~failed
    /\ saved.snap.some /\ saved.ctx = listContextParams
    /\ \E pid \in {0, 1} :
          /\ permalinkID' = pid
          /\ state' = InitialState(listContextParams, pid, saved.snap)
    /\ pending' = <<>>
    /\ pageSize' = MIN_PAGE_SIZE
    /\ slots' = <<NullSlot, NullSlot, NullSlot>>
    /\ scrollOffset' = initialOffset(saved.snap, saved.snap.anchor)
    /\ viewportRows' = 0
    /\ scrollRectHeight' = 0
    /\ mounted' = FALSE
    /\ saved' = UsedSaved
    /\ timer' = NoTimer
    /\ UNCHANGED <<numRows, listContextParams, rowHeight, failed>>

Init ==
    /\ numRows \in 0..MaxRows
    /\ listContextParams = 1
    /\ permalinkID \in 0..(numRows + 1)
    /\ state = InitialState(listContextParams, permalinkID, NoSnapshot)
    /\ pending = <<>>
    /\ pageSize = MIN_PAGE_SIZE
    /\ slots = <<NullSlot, NullSlot, NullSlot>>
    /\ scrollOffset = initialOffset(NoSnapshot, state.queryAnchor.anchor)
    /\ viewportRows = 0
    /\ scrollRectHeight = 0
    /\ rowHeight = 1
    /\ mounted = FALSE
    /\ failed = FALSE
    /\ saved = NoSaved
    /\ timer = NoTimer

\* A run without snapshots.
NextFresh ==
    \/ Mount
    \/ Render
    \/ QueryProgress
    \/ Scroll
    \/ Resize
    \/ ChangeProps

SpecFresh == Init /\ [][NextFresh]_vars

\* The runs in which the hook gets to work: React runs a scheduled render
\* (weak fairness of Mount and Render), the store delivers the results of the
\* subscribed queries (weak fairness of QueryProgress), and the caller and
\* the user eventually leave the list alone.
Internal ==
    \/ Mount
    \/ Render
    \/ QueryProgress

SpecLive ==
    /\ Init /\ [][NextFresh]_vars
    /\ WF_vars(Mount) /\ WF_vars(Render) /\ WF_vars(QueryProgress)
    /\ <>[][Internal]_vars

Next ==
    \/ Mount
    \/ Render
    \/ QueryProgress
    \/ Scroll
    \/ Resize
    \/ ChangeProps
    \/ Tick
    \/ EmitSnapshot
    \/ Restore
    \/ Remount

Spec == Init /\ [][Next]_vars

\* -------------------------------------------------------- the reducer alone
\* pagingReducer as a pure function: the state is drawn from bounded sets,
\* dispatch queues an action of one type, and a render reduces the queue.
ReducerAnchors == {TOP_ANCHOR, createPermalinkAnchor(1)}

InitReducer ==
    /\ numRows = 0
    /\ listContextParams = 1
    /\ permalinkID = 0
    /\ \E n \in 0..MaxNum, atStart \in BOOLEAN, atEnd \in BOOLEAN, anchor \in ReducerAnchors :
          state = PagingState(n, atStart, atEnd, anchor, 1, "idle", 0)
    /\ pending = <<>>
    /\ pageSize = MIN_PAGE_SIZE
    /\ slots = <<NullSlot, NullSlot, NullSlot>>
    /\ scrollOffset = 0
    /\ viewportRows = 0
    /\ scrollRectHeight = 0
    /\ rowHeight = 1
    /\ mounted = FALSE
    /\ failed = FALSE
    /\ saved = NoSaved
    /\ timer = NoTimer

dispatch(action) ==
    /\ Len(pending) < MaxPending
    /\ pending' = Append(pending, action)
    /\ UNCHANGED <<numRows, state, pageSize, listContextParams, permalinkID, slots,
                   scrollOffset, viewportRows, scrollRectHeight, rowHeight, mounted,
                   failed, saved, timer>>

updateEstimatedTotal == \E n \in 0..MaxNum : dispatch(UpdateEstimatedTotal(n))
reachedStart == dispatch(ReachedStart)
reachedEnd == dispatch(ReachedEnd)
updateAnchor == \E target \in ReducerAnchors : dispatch(UpdateAnchor(target))
shiftAnchorDown ==
    dispatch(ShiftAnchorDown(1, [state.queryAnchor.anchor EXCEPT !.index = @ + 1]))
resetToTop == dispatch(ResetToTop(-1))
scrollAdjusted == dispatch(ScrollAdjusted)
pagingComplete == dispatch(PagingComplete)
resetState ==
    \/ dispatch(ResetState(0, TRUE, FALSE, TOP_ANCHOR, 2))
    \/ dispatch(ResetState(NUM_ROWS_FOR_LOADING_SKELETON, FALSE, FALSE,
                           createPermalinkAnchor(1), 2))

\* The next render reduces the queue.
reduce ==
    /\ pending # <<>>
    /\ Reduce(state, pending).estimatedTotal \in -1..(MaxNum + 1)
    /\ Reduce(state, pending).queryAnchor.anchor.index < MaxNum
    /\ state' = Reduce(state, pending)
    /\ pending' = <<>>
    /\ UNCHANGED <<numRows, pageSize, listContextParams, permalinkID, slots,
                   scrollOffset, viewportRows, scrollRectHeight, rowHeight, mounted,
                   failed, saved, timer>>

NextReducer ==
    \/ updateEstimatedTotal
    \/ reachedStart
    \/ reachedEnd
    \/ updateAnchor
    \/ shiftAnchorDown
    \/ resetToTop
    \/ scrollAdjusted
    \/ pagingComplete
    \/ resetState
    \/ reduce

SpecReducer == InitReducer /\ [][NextReducer]_vars

\* --------------------------------------------------- the page size alone
\* The page size effect under a scroll element of any height in pixels and
\* rows of any height: the element is resized, the effect (its dependencies
\* are the page size and the scroll rectangle) grows the page size.
InitPageSize ==
    /\ numRows = 0
    /\ listContextParams = 1
    /\ permalinkID \in {0, 1}
    /\ state = InitialState(listContextParams, permalinkID, NoSnapshot)
    /\ pending = <<>>
    /\ pageSize = MIN_PAGE_SIZE
    /\ slots = <<NullSlot, NullSlot, NullSlot>>
    /\ scrollOffset = 0
    /\ viewportRows = 0
    /\ scrollRectHeight = 0
    /\ rowHeight \in 1..MaxRowHeight
    /\ mounted = TRUE
    /\ failed = FALSE
    /\ saved = NoSaved
    /\ timer = NoTimer

resizeScrollRect ==
    /\ \E h \in 0..MaxHeight :
          /\ h # scrollRectHeight
          /\ scrollRectHeight' = h
          /\ viewportRows' = Ceil(h, rowHeight)
    /\ UNCHANGED <<numRows, state, pending, pageSize, listContextParams, permalinkID,
                   slots, scrollOffset, rowHeight, mounted, failed, saved, timer>>

\* Variant: the effect sets the page size to the target whenever they differ.
pageSizeEffect_alsoShrinks ==
    /\ newPageSize(scrollRectHeight, rowHeight) # pageSize
    /\ pageSize' = newPageSize(scrollRectHeight, rowHeight)
    /\ UNCHANGED <<numRows, state, pending, listContextParams, permalinkID, slots,
                   scrollOffset, viewportRows, scrollRectHeight, rowHeight, mounted,
                   failed, saved, timer>>

pageSizeEffect ==
    /\ newPageSize(scrollRectHeight, rowHeight) > pageSize
    /\ pageSize' = newPageSize(scrollRectHeight, rowHeight)
    /\ UNCHANGED <<numRows, state, pending, listContextParams, permalinkID, slots,
                   scrollOffset, viewportRows, scrollRectHeight, rowHeight, mounted,
                   failed, saved, timer>>

NextPageSize ==
    \/ resizeScrollRect
    \/ pageSizeEffect

SpecPageSize == InitPageSize /\ [][NextPageSize]_vars

\* ------------------------------------------------------------ useRows alone
\* useRows as a pure function of its anchor, its page size and the results of
\* its three hooks: the list, the permalink and the page size are drawn from
\* bounded sets, and each render of useRows follows the arrival of results.
InitRows ==
    /\ numRows \in 0..MaxListRows
    /\ listContextParams = 1
    /\ permalinkID \in 0..(numRows + 1)
    /\ state = InitialState(listContextParams, permalinkID, NoSnapshot)
    /\ pending = <<>>
    /\ pageSize \in PageSizes
    /\ slots = <<NullSlot, NullSlot, NullSlot>>
    /\ scrollOffset = 0
    /\ viewportRows = 0
    /\ scrollRectHeight = 0
    /\ rowHeight = 1
    /\ mounted = FALSE
    /\ failed = FALSE
    /\ saved = NoSaved
    /\ timer = NoTimer

\* The first render of useRows subscribes its hooks; a later one follows the
\* arrival of results and subscribes the page hooks to the target's pages.
renderRows ==
    /\ \E s1 \in Advance(slots[1]), s2 \in Advance(slots[2]), s3 \in Advance(slots[3]) :
       \E init \in {"none", "complete"} :
          /\ slots' = Subscribe(<<s1, s2, s3>>, CurAnchor, pageSize, listContextParams, init)
          /\ slots' # slots
    /\ mounted' = TRUE
    /\ UNCHANGED <<numRows, state, pending, pageSize, listContextParams, permalinkID,
                   scrollOffset, viewportRows, scrollRectHeight, rowHeight, failed,
                   saved, timer>>

NextRows == renderRows

SpecRows == InitRows /\ [][NextRows]_vars

TypeOK ==
    /\ numRows \in 0..MaxRows
    /\ pageSize % 2 = 0
    /\ state.pagingPhase \in {"idle", "adjusting", "skipping"}
    /\ listContextParams \in Contexts
    /\ scrollOffset >= 0
    /\ viewportRows \in 0..MaxViewportRows
    /\ \A i \in 1..3 : slots[i].st \in {"null", "none", "rows", "complete"}

\* -------------------------------------------------------------- properties
\* Helpers: the queue a render is about to reduce.
HasType(q, type) == \E i \in 1..Len(q) : q[i].type = type
OnlyType(q, type) == q # <<>> /\ \A i \in 1..Len(q) : q[i].type = type
\* A step of SpecReducer that reduces the queue.
Reduced == pending # <<>> /\ pending' = <<>>

RECURSIVE MaxCandidate(_, _)
MaxCandidate(current, q) ==
    IF q = <<>> THEN current
    ELSE MaxCandidate(Max(current, Head(q).newTotal), Tail(q))

\* C1: in every reachable state the hook's total is defined exactly when both
\* sticky flags hasReachedStart and hasReachedEnd are true, and when it is
\* defined it equals estimatedTotal.
C1_ExactTotalGating ==
    /\ total.defined <=> (state.hasReachedStart /\ state.hasReachedEnd)
    /\ total.defined => total.value = state.estimatedTotal

\* Both ends of a list of several rows have been reached and the total is
\* exposed.
C1_Witness ==
    /\ mounted /\ numRows > 1
    /\ total.defined /\ total.value = numRows

\* C4: reducing a queue of updateEstimatedTotal actions sets estimatedTotal to
\* the maximum of its value and the candidates and changes nothing else; so it
\* never decreases over any sequence of them, and candidates not above the
\* current value leave the whole state unchanged.
C4_UpdateEstimatedTotal ==
    [][(Reduced /\ OnlyType(pending, "UPDATE_ESTIMATED_TOTAL"))
        => /\ state' = [state EXCEPT
                          !.estimatedTotal = MaxCandidate(state.estimatedTotal, pending)]
           /\ state'.estimatedTotal >= state.estimatedTotal
           /\ (\A i \in 1..Len(pending) : pending[i].newTotal <= state.estimatedTotal)
                => state' = state]_vars

\* Two updateEstimatedTotal calls are queued for reduction, the first with a
\* candidate above the estimate, the second with one below it.
C4_Witness ==
    /\ state.estimatedTotal = 2
    /\ pending = <<UpdateEstimatedTotal(MaxNum), UpdateEstimatedTotal(1)>>

\* C7: a sticky flag that is true stays true when the queue reduced holds no
\* resetState; a queue of reachedStart (reachedEnd) actions sets
\* hasReachedStart (hasReachedEnd) and changes no other field, however many of
\* them it holds.
C7_StickyFlags ==
    [][Reduced =>
        /\ ~HasType(pending, "RESET_STATE")
             => /\ state.hasReachedStart => state'.hasReachedStart
                /\ state.hasReachedEnd => state'.hasReachedEnd
        /\ OnlyType(pending, "REACHED_START")
             => state' = [state EXCEPT !.hasReachedStart = TRUE]
        /\ OnlyType(pending, "REACHED_END")
             => state' = [state EXCEPT !.hasReachedEnd = TRUE]]_vars

\* Both flags are true in a list-context that was never reset (tag still 1)
\* and a queue that re-anchors and repeats reachedEnd is about to be reduced.
C7_Witness ==
    /\ state.hasReachedStart /\ state.hasReachedEnd
    /\ state.queryAnchor.listContextParams = 1
    /\ pending = <<UpdateAnchor(TOP_ANCHOR), ReachedEnd>>

\* C2: whenever the hook's total is defined it is the number of rows of the
\* list (a run without snapshots over an unchanging data set).
C2_TotalIsRowCount == total.defined => total.value = numRows

\* C3: with an empty data set and the top anchor in use, once the forward page
\* query (limit pageSize + 1) is complete and the dispatched actions are
\* reduced: rowsEmpty and complete hold, both sticky flags are true and the
\* total is 0.
C3_EmptyDataSet ==
    (/\ mounted /\ numRows = 0
     /\ isListContextCurrent(state, listContextParams)
     /\ CurAnchor = TOP_ANCHOR
     /\ slots[2].key = getPageQuery(listContextParams, pageSize + 1, Undefined, "forward")
     /\ IsComplete(slots[2])
     /\ pending = <<>>)
    => /\ CurWindow.rowsEmpty /\ CurWindow.complete
       /\ state.hasReachedStart /\ state.hasReachedEnd
       /\ total.defined /\ total.value = 0

\* C5: a render that reduces no resetState does not lower estimatedTotal.
C5_EstimateNeverDecreases ==
    [][~HasType(pending, "RESET_STATE")
        => state'.estimatedTotal >= state.estimatedTotal]_vars

\* C5, amended: a render that reduces no resetState lowers estimatedTotal only
\* by folding a negative pendingScrollAdjustment (set by resetToTop) into it
\* with scrollAdjusted, and then by no more than that adjustment.
C5_EstimateDecreasesOnlyByCompensation ==
    [][~HasType(pending, "RESET_STATE")
        => state'.estimatedTotal >=
             state.estimatedTotal
             + (IF HasType(pending, "SCROLL_ADJUSTED")
                THEN Min(0, state.pendingScrollAdjustment) ELSE 0)]_vars

\* scrollAdjusted is queued while a negative compensation is pending.
C5_Witness ==
    /\ state.pendingScrollAdjustment < 0
    /\ HasType(pending, "SCROLL_ADJUSTED")
    /\ ~HasType(pending, "RESET_STATE")

C8_NoMismatchedQuery ==
    /\ [](/\ state.queryAnchor.anchor.tag \in {0, state.queryAnchor.listContextParams}
          /\ CurAnchor.tag \in {0, listContextParams}
          /\ mounted =>
                /\ slots[1].key = Query1(CurAnchor)
                /\ slots[2].key = Query2(CurAnchor, pageSize, listContextParams, slots[1])
                /\ slots[3].key = Query3(CurAnchor, pageSize, listContextParams, slots[1])
          /\ ~isListContextCurrent(state, listContextParams) =>
                CurAnchor \in {TOP_ANCHOR, createPermalinkAnchor(permalinkID)})
    /\ [][state'.queryAnchor.listContextParams # state.queryAnchor.listContextParams
            => \E i \in 1..Len(pending) :
                  /\ pending[i].type = "RESET_STATE"
                  /\ \A j \in (i + 1)..Len(pending) : pending[j].type # "RESET_STATE"
                  /\ state'.queryAnchor.listContextParams = pending[i].listContextParams
                  /\ state'.queryAnchor.anchor = pending[i].anchor]_vars

\* A list-context change mid-scroll with a query in flight: the state still
\* holds an anchor with a cursor from the rows of the old list-context, the
\* resetState is queued, and the page query of the new list-context has no
\* result yet.
C8_Witness ==
    /\ mounted
    /\ ~isListContextCurrent(state, listContextParams)
    /\ state.queryAnchor.anchor.startRow # Undefined
    /\ state.queryAnchor.anchor.tag = state.queryAnchor.listContextParams
    /\ HasType(pending, "RESET_STATE")
    /\ slots[2].st = "none"

\* C9: for a permalink anchor whose lookup is complete without a row, the
\* window reports permalinkNotFound and complete, has length 0 and no row at
\* any index, and the hooks of the before and after pages hold no query; for a
\* permalink anchor whose id no row has, they hold no query at any time.
C9_PermalinkNotFound ==
    /\ (mounted /\ IsPermalink(CurAnchor)
         /\ IsComplete(slots[1]) /\ SingleData(slots[1]) = Undefined)
        => /\ CurWindow.permalinkNotFound
           /\ CurWindow.complete
           /\ CurWindow.rowsLength = 0
           /\ \A index \in -MaxTotal..(2 * MaxTotal) :
                 rowAt(CurAnchor, pageSize, slots, index) = Undefined
           /\ slots[2] = NullSlot /\ slots[3] = NullSlot
    /\ (mounted /\ IsPermalink(CurAnchor) /\ SingleRow(CurAnchor.id) = Undefined)
        => slots[2] = NullSlot /\ slots[3] = NullSlot

\* The lookup of a permalink id that no row of a non-empty list has is
\* complete, under the second list-context: the hooks held the queries of an
\* earlier anchor before.
C9_Witness ==
    /\ mounted /\ numRows > 0
    /\ IsPermalink(CurAnchor) /\ CurAnchor.id = numRows + 1
    /\ slots[1].key = getSingleQuery(CurAnchor.id)
    /\ IsComplete(slots[1])
    /\ listContextParams = 2

\* C10: for a permalink anchor whose lookup is complete with a row, rowAt at
\* the anchor's index is that row, the one with the anchor's id.
C10_PermalinkCentering ==
    (mounted /\ IsPermalink(CurAnchor)
     /\ IsComplete(slots[1]) /\ SingleData(slots[1]) # Undefined)
    => rowAt(CurAnchor, pageSize, slots, CurAnchor.index) = CurAnchor.id

\* A permalink anchor that shiftAnchorDown has moved from its first index,
\* while the page after the target has not arrived.
C10_Witness ==
    /\ mounted /\ IsPermalink(CurAnchor)
    /\ CurAnchor.index > NUM_ROWS_FOR_LOADING_SKELETON
    /\ IsComplete(slots[1]) /\ SingleData(slots[1]) = CurAnchor.id
    /\ slots[3].st = "none"

\* C11: for a forward anchor at index a whose window of length n is complete,
\* rowAt(i) is a row for every a <= i < a + n, namely the i-th row of the
\* page, and is absent for every other i (below a, and from a + n on, the
\* look-ahead row at a + pageSize included); n is never above pageSize.
C11_ForwardContiguity ==
    (mounted /\ CurAnchor.kind = "forward" /\ CurWindow.complete)
    => /\ CurWindow.rowsLength <= pageSize
       /\ CurWindow.firstRowIndex = CurAnchor.index
       /\ \A i \in (-2)..(2 * MaxTotal) :
             IF CurAnchor.index <= i /\ i < CurAnchor.index + CurWindow.rowsLength
             THEN /\ rowAt(CurAnchor, pageSize, slots, i) # Undefined
                  /\ rowAt(CurAnchor, pageSize, slots, i)
                       = PageData(slots[2])[i - CurAnchor.index + 1]
             ELSE rowAt(CurAnchor, pageSize, slots, i) = Undefined

\* A complete forward window whose query returned the look-ahead row, with
\* the viewport measured.
C11_Witness ==
    /\ mounted /\ CurAnchor.kind = "forward" /\ CurWindow.complete
    /\ viewportRows > 0
    /\ Len(PageData(slots[2])) = pageSize + 1

\* Helpers: the values of the render a step ends in, and the queues that hold
\* a scroll compensation.
NextAnchor == anchorOf(state', listContextParams', permalinkID')
NextWindow == useRows(NextAnchor, pageSize', slots')
NextCount == Count(state', NextWindow)
Shifting(q) == HasType(q, "SHIFT_ANCHOR_DOWN") \/ HasType(q, "RESET_TO_TOP")
LoadedIndices == (-MaxTotal)..(2 * MaxTotal)

VisibleCovered ==
    /\ mounted /\ ~failed
    /\ isListContextCurrent(state, listContextParams)
    /\ CurWindow.complete
    /\ HasVirtualItems(CurCount, viewportRows)
    /\ \A i \in FirstItem(CurCount, scrollOffset, viewportRows)
                ..LastItem(CurCount, scrollOffset, viewportRows) :
          rowAt(CurAnchor, pageSize, slots, i) # Undefined
VisibleCoveredWithMargin ==
    /\ VisibleCovered
    /\ CurWindow.firstRowIndex >= 0
    /\ CurWindow.atStart => CurWindow.firstRowIndex = 0
    /\ ~CurWindow.atStart =>
          FirstItem(CurCount, scrollOffset, viewportRows) - CurWindow.firstRowIndex
            > getNearPageEdgeThreshold(pageSize)
    /\ ~CurWindow.atEnd =>
          CurWindow.firstRowIndex + CurWindow.rowsLength
            - LastItem(CurCount, scrollOffset, viewportRows)
            > getNearPageEdgeThreshold(pageSize)

\* C13: with a stationary viewport, re-anchoring toward one edge never creates
\* a window that at once triggers re-anchoring back: the render that installs
\* an edge-triggered anchor without moving the viewport does not dispatch
\* updateAnchor with the anchor it has just left.
C13_NoReanchorLoop ==
    [][(Render /\ HasType(pending, "UPDATE_ANCHOR")
          /\ scrollOffset' = scrollOffset /\ viewportRows' = viewportRows
          /\ state'.queryAnchor.anchor # state.queryAnchor.anchor)
        => \A i \in 1..Len(pending') :
              pending'[i].type = "UPDATE_ANCHOR"
              => pending'[i].anchor # state.queryAnchor.anchor]_vars

\* C13, the part that holds: once the complete window covers the rendered
\* index range with more than the near-edge threshold of rows to spare towards
\* every side that is not a boundary of the list, and starts at index 0 when
\* it is at the start, a cycle dispatches no re-anchoring, and repeated cycles
\* without viewport movement change neither the anchor nor the queries.
C13_SettledWindowIsStable ==
    /\ [](VisibleCoveredWithMargin => ~AnchorTouched(pending))
    /\ [][(Render /\ VisibleCoveredWithMargin)
            => /\ state'.queryAnchor = state.queryAnchor
               /\ Keys(slots') = Keys(slots)
               /\ scrollOffset' = scrollOffset
               /\ VisibleCoveredWithMargin']_vars

\* Helper: a step that reduces the dispatched actions and renders.
Reducing == mounted' /\ ~failed' /\ state' = Reduce(state, pending)

\* C14: updateAnchor is dispatched only by a render in which the list-context
\* is current, the window complete, the phase idle and no compensation
\* pending; pagingComplete only by a render in phase skipping.  A render that
\* reduces scrollAdjusted or resetState is in phase skipping, and the phase
\* leaves skipping for idle only by reducing pagingComplete: so a whole cycle
\* in phase skipping lies between each of them and the next re-anchoring.
C14_EdgeDetectionGate ==
    /\ [](HasType(pending, "UPDATE_ANCHOR")
            => /\ isListContextCurrent(state, listContextParams)
               /\ CurWindow.complete
               /\ state.pagingPhase = "idle"
               /\ state.pendingScrollAdjustment = 0)
    /\ [](HasType(pending, "PAGING_COMPLETE")
            => state.pagingPhase = "skipping" /\ state.pendingScrollAdjustment = 0)
    /\ [][(Reducing /\ (HasType(pending, "SCROLL_ADJUSTED") \/ HasType(pending, "RESET_STATE")))
            => state'.pagingPhase = "skipping" /\ ~HasType(pending', "UPDATE_ANCHOR")]_vars
    /\ [][(Reducing /\ state.pagingPhase = "skipping" /\ state'.pagingPhase = "idle")
            => HasType(pending, "PAGING_COMPLETE")]_vars

\* An anchor that was shifted down (so a compensation was applied and settled)
\* is left by an edge-triggered re-anchoring.
C14_Witness ==
    /\ mounted /\ ~failed
    /\ CurAnchor.kind = "permalink" /\ CurAnchor.index > NUM_ROWS_FOR_LOADING_SKELETON
    /\ state.pagingPhase = "idle"
    /\ HasType(pending, "UPDATE_ANCHOR")

\* Helper: the number of compensating actions in a queue.
ShiftCount(q) ==
    Cardinality({i \in 1..Len(q) : q[i].type \in {"SHIFT_ANCHOR_DOWN", "RESET_TO_TOP"}})

\* C15: shiftAnchorDown and resetToTop are dispatched only by a render in
\* phase idle with no pending adjustment, at most one per render; a render
\* with a pending adjustment applies it (scrollAdjusted heads its dispatches),
\* and a pending adjustment changes only by being folded in by scrollAdjusted.
C15_OneCompensationOutstanding ==
    /\ [](Shifting(pending)
            => /\ state.pendingScrollAdjustment = 0
               /\ state.pagingPhase = "idle"
               /\ ShiftCount(pending) = 1)
    /\ []((mounted /\ ~failed /\ state.pendingScrollAdjustment # 0)
            => /\ state.pagingPhase = "adjusting"
               /\ pending # <<>> /\ Head(pending).type = "SCROLL_ADJUSTED")
    /\ [][(Reducing /\ state.pendingScrollAdjustment # 0)
            => state'.pendingScrollAdjustment = 0]_vars

\* A compensation is pending and about to be folded in.
C15_Witness ==
    /\ mounted /\ ~failed
    /\ state.pendingScrollAdjustment < 0
    /\ state.pagingPhase = "adjusting"
    /\ HasType(pending, "SCROLL_ADJUSTED")

\* Helper: the last action of a queue.
Last(q) == q[Len(q)]

\* C16: resetState replaces the whole state: after a reduction whose last
\* action is resetState every field is the one the action carries, the phase
\* is skipping and no scroll adjustment is pending, whatever the state was.
C16_ResetStateReplacesAll ==
    [][(Reduced /\ Last(pending).type = "RESET_STATE")
        => state' = PagingState(Last(pending).newTotal, Last(pending).hasReachedStart,
                                Last(pending).hasReachedEnd, Last(pending).anchor,
                                Last(pending).listContextParams, "skipping", 0)]_vars

\* C16 in the hook: a render that reduces resetState last.
C16_HookResetStateReplacesAll ==
    [][(Reducing /\ pending # <<>> /\ Last(pending).type = "RESET_STATE")
        => state' = PagingState(Last(pending).newTotal, Last(pending).hasReachedStart,
                                Last(pending).hasReachedEnd, Last(pending).anchor,
                                Last(pending).listContextParams, "skipping", 0)]_vars

\* Helper: the smallest even number that is at least n.
SmallestEvenAtLeast(n) == CHOOSE e \in n..(n + 1) : e % 2 = 0

\* C17 as stated: the target page size is the smallest even number that is at
\* least max(minimum page size, ceil(3 * H / r)).
C17_TargetIsCeilOfTriple ==
    newPageSize(scrollRectHeight, rowHeight)
      = SmallestEvenAtLeast(Max(MIN_PAGE_SIZE, Ceil(3 * scrollRectHeight, rowHeight)))

\* C17, amended: the target page size is the smallest even number that is at
\* least max(minimum page size, 3 * ceil(H / r)): the number of rows is
\* rounded up before it is tripled.  The effect sets the page size to the
\* target.  With the minimum 100, 7.2 rows of 48 pixels give 100 and 50 rows
\* give 150.
C17_TargetIsTripleOfCeil ==
    /\ [](newPageSize(scrollRectHeight, rowHeight)
            = SmallestEvenAtLeast(Max(MIN_PAGE_SIZE, 3 * Ceil(scrollRectHeight, rowHeight))))
    /\ [][pageSize' # pageSize
            => pageSize' = SmallestEvenAtLeast(
                              Max(MIN_PAGE_SIZE, 3 * Ceil(scrollRectHeight, rowHeight)))]_vars
    /\ [](PageSizeFor(100, Ceil(3456, 480)) = 100 /\ PageSizeFor(100, Ceil(50 * 48, 48)) = 150)

\* The page size has grown to the target of a scroll element that shows a
\* fraction of a row, where tripling before and after rounding differ.
C17_Witness ==
    /\ scrollRectHeight % rowHeight # 0
    /\ pageSize > MIN_PAGE_SIZE
    /\ pageSize = newPageSize(scrollRectHeight, rowHeight)
    /\ pageSize # SmallestEvenAtLeast(Max(MIN_PAGE_SIZE, Ceil(3 * scrollRectHeight, rowHeight)))

\* C18: over any sequence of resizes of the scroll element the page size
\* never decreases and is never below the minimum page size.
C18_PageSizeNeverShrinks ==
    /\ [](pageSize >= MIN_PAGE_SIZE)
    /\ [][pageSize' >= pageSize]_vars

\* The scroll element has shrunk after the page size had grown: the page size
\* is above the target.
C18_Witness ==
    /\ pageSize > MIN_PAGE_SIZE
    /\ scrollRectHeight > 0
    /\ pageSize > newPageSize(scrollRectHeight, rowHeight)

\* C19: the page size is even in every reachable state, so the evenness
\* assertion of useRows holds for the anchor in use.
C19_PageSizeEven ==
    /\ pageSize % 2 = 0
    /\ useRowsAsserts(CurAnchor, pageSize)

\* The page size has grown for a permalink anchor from an odd multiple of
\* three rows.
C19_Witness ==
    /\ IsPermalink(CurAnchor)
    /\ pageSize > MIN_PAGE_SIZE
    /\ (3 * Ceil(scrollRectHeight, rowHeight)) % 2 = 1
    /\ pageSize = newPageSize(scrollRectHeight, rowHeight)

\* C20: no assertion fails and no backward anchor without a cursor is
\* dispatched or installed: every backward anchor, in the state or in an
\* updateAnchor waiting to be reduced, carries a start row.
C20_BackwardAnchorHasCursor ==
    /\ ~failed
    /\ state.queryAnchor.anchor.kind = "backward"
          => state.queryAnchor.anchor.startRow # Undefined
    /\ CurAnchor.kind = "backward" => CurAnchor.startRow # Undefined
    /\ \A i \in 1..Len(pending) :
          (pending[i].type = "UPDATE_ANCHOR" /\ pending[i].anchor.kind = "backward")
          => pending[i].anchor.startRow # Undefined

\* A backward window, installed by an edge-triggered re-anchoring, is loaded.
C20_Witness ==
    /\ mounted /\ ~failed
    /\ CurAnchor.kind = "backward"
    /\ CurWindow.complete /\ CurWindow.rowsLength > 0

\* C21 as stated: while the window is not complete no re-anchoring is
\* dispatched and the estimate does not advance.
C21_IncompleteWindowFreezesEstimate ==
    /\ []((mounted /\ ~failed /\ ~CurWindow.complete)
            => ~HasType(pending, "UPDATE_ANCHOR"))
    /\ [][(Reducing /\ ~CurWindow.complete /\ ~HasType(pending, "RESET_STATE"))
            => state'.estimatedTotal <= state.estimatedTotal]_vars

\* C21, amended: a render whose window is not complete dispatches neither
\* updateAnchor nor updateEstimatedTotal; the estimate then changes only by a
\* scroll compensation being folded in (the shift effect does not wait for
\* completeness).  A hook that keeps its query is never put back to an
\* earlier status (nothing is issued again), and a window that has become
\* complete above the estimate gets its updateEstimatedTotal.
C21_IncompleteWindowIsPending ==
    /\ []((mounted /\ ~failed /\ ~CurWindow.complete)
            => /\ ~HasType(pending, "UPDATE_ANCHOR")
               /\ ~HasType(pending, "UPDATE_ESTIMATED_TOTAL"))
    /\ [][(Reducing /\ ~CurWindow.complete /\ ~HasType(pending, "RESET_STATE")
              /\ state'.estimatedTotal # state.estimatedTotal)
            => /\ HasType(pending, "SCROLL_ADJUSTED")
               /\ state'.estimatedTotal = state.estimatedTotal + state.pendingScrollAdjustment]_vars
    /\ [][\A i \in 1..3 :
              (mounted' /\ slots'[i].key = slots[i].key) => slots'[i] \in Advance(slots[i])]_vars
    /\ []((mounted /\ ~failed /\ CurWindow.complete
              /\ newEstimatedTotal(CurWindow) > state.estimatedTotal)
            => HasType(pending, "UPDATE_ESTIMATED_TOTAL"))

\* The data of a query has arrived without its result being complete: the
\* window is not complete although its rows are above the estimate and the
\* viewport is measured.
C21_Witness ==
    /\ mounted /\ ~failed /\ viewportRows > 0
    /\ isListContextCurrent(state, listContextParams)
    /\ ~CurWindow.complete
    /\ \E i \in 1..3 : slots[i].st = "rows"
    /\ state.pagingPhase = "idle" /\ state.pendingScrollAdjustment = 0
    /\ newEstimatedTotal(CurWindow) > state.estimatedTotal

\* Helper: the three hooks as they are once every query of the anchor is
\* complete, whatever the order of completion was.
SettledSlots(anchor, ps, ctx) ==
    Subscribe(<<NullSlot, NullSlot, NullSlot>>, anchor, ps, ctx, "complete")
AllSettled == \A i \in 1..3 : slots[i].st \in {"null", "complete"}

Restoring == saved.snap.some /\ saved' = UsedSaved /\ mounted' /\ ~failed'
Restored == saved.used /\ Reducing /\ HasType(pending, "RESET_STATE")

\* C23: the render of a list-context change with a snapshot sets the scroll
\* offset to the snapshot's (as far as the scroll element allows) and
\* dispatches resetState with the snapshot's anchor, estimate and flags and
\* the new list-context, and no re-anchoring; the render that reduces it has
\* exactly that state, in phase skipping, and dispatches no re-anchoring.
C23_RestoreFromSnapshot ==
    /\ [][Restoring
            => /\ scrollOffset' = ClampScroll(saved.snap.scrollTop, NextCount, viewportRows')
               /\ ~AnchorTouched(SelectSeq(pending', LAMBDA a : a.type # "RESET_STATE"))
               /\ \E i \in 1..Len(pending') :
                     pending'[i] = ResetState(saved.snap.estimatedTotal,
                                              saved.snap.hasReachedStart,
                                              saved.snap.hasReachedEnd,
                                              saved.snap.anchor, saved.ctx)]_vars
    /\ [][Restored
            => /\ ~HasType(pending', "UPDATE_ANCHOR")
               /\ \E i \in 1..Len(pending) :
                     /\ pending[i].type = "RESET_STATE"
                     /\ state' = PagingState(pending[i].newTotal, pending[i].hasReachedStart,
                                             pending[i].hasReachedEnd, pending[i].anchor,
                                             pending[i].listContextParams, "skipping", 0)]_vars

\* C23, the part that holds: as above, but of the state that the reduction
\* leaves only the anchor, its list-context, the phase and the absence of a
\* pending adjustment are those of the resetState.
C23_RestoreAnchorAndPhase ==
    /\ [][Restoring
            => /\ scrollOffset' = ClampScroll(saved.snap.scrollTop, NextCount, viewportRows')
               /\ ~AnchorTouched(SelectSeq(pending', LAMBDA a : a.type # "RESET_STATE"))
               /\ \E i \in 1..Len(pending') :
                     pending'[i] = ResetState(saved.snap.estimatedTotal,
                                              saved.snap.hasReachedStart,
                                              saved.snap.hasReachedEnd,
                                              saved.snap.anchor, saved.ctx)]_vars
    /\ [][Restored
            => /\ ~HasType(pending', "UPDATE_ANCHOR")
               /\ state'.pagingPhase = "skipping"
               /\ state'.pendingScrollAdjustment = 0
               /\ \E i \in 1..Len(pending) :
                     /\ pending[i].type = "RESET_STATE"
                     /\ state'.queryAnchor = [listContextParams |-> pending[i].listContextParams,
                                              anchor |-> pending[i].anchor]
                     /\ state'.estimatedTotal >= pending[i].newTotal
                     /\ pending[i].hasReachedStart => state'.hasReachedStart
                     /\ pending[i].hasReachedEnd => state'.hasReachedEnd]_vars
\* C24: snapshot emission is debounced and coalescing.  An armed timeout
\* belongs to a state of the caller's list-context and carries the anchor,
\* estimate and flags of the last render; every step that changes one of the
\* five snapshot values while a timeout stays armed starts its interval anew;
\* a snapshot is emitted only by a timeout that has been armed for the whole
\* debounce interval, under the caller's current list-context, and holds the
\* values current at emission.
C24_SnapshotDebounced ==
    /\ [](timer.armed =>
            /\ isListContextCurrent(state, listContextParams)
            /\ timer.anchor = CurAnchor
            /\ timer.estimatedTotal = state.estimatedTotal
            /\ timer.hasReachedStart = state.hasReachedStart
            /\ timer.hasReachedEnd = state.hasReachedEnd)
    /\ [][(/\ timer'.armed
            /\ \/ CurAnchor' # CurAnchor
               \/ timer'.scroll # timer.scroll
               \/ state'.estimatedTotal # state.estimatedTotal
               \/ state'.hasReachedStart # state.hasReachedStart
               \/ state'.hasReachedEnd # state.hasReachedEnd)
           => timer'.age = 0]_vars
    /\ [][timer'.age > timer.age => timer.scroll = scrollOffset]_vars
    /\ [][(~saved.snap.some /\ saved'.snap.some)
           => /\ timer.armed /\ timer.age = DEBOUNCE_TICKS
              /\ isListContextCurrent(state, listContextParams)
              /\ saved'.ctx = state.queryAnchor.listContextParams
              /\ saved'.snap = Snapshot(CurAnchor, scrollOffset, state.estimatedTotal,
                                        state.hasReachedStart, state.hasReachedEnd)
              /\ ~timer'.armed]_vars

\* A snapshot of a scrolled list with a re-anchored window has been emitted.
C24_Witness ==
    /\ saved.snap.some
    /\ saved.snap.anchor.kind # "permalink"
    /\ saved.snap.anchor # TOP_ANCHOR
    /\ saved.snap.scrollTop > 0

\* C25: once the window of the last render is complete, rowsEmpty is true
\* exactly when the window holds no row, whatever the kind of the anchor.
C25_RowsEmptyIffNoRow ==
    (mounted /\ CurWindow.complete) => (CurWindow.rowsEmpty <=> CurWindow.rowsLength = 0)

\* The same for the windows of forward and backward anchors and of permalinks
\* to a row of a list of several rows.
C25_RowsEmptyIffNoRowButLoneTarget ==
    (mounted /\ CurWindow.complete /\ ~(IsPermalink(CurAnchor) /\ numRows = 1))
        => (CurWindow.rowsEmpty <=> CurWindow.rowsLength = 0)

\* C26: for a forward or backward anchor the hook subscribes to one page
\* query, with limit pageSize + 1, from the anchor's cursor in the anchor's
\* direction; the window holds min(returned, pageSize) rows; the boundary in
\* the anchor's direction is reported exactly when the query is complete and
\* returned at most pageSize records; a backward window never reports atEnd.
C26_SinglePageWindow ==
    (mounted /\ ~IsPermalink(CurAnchor)) =>
        LET returned == Len(PageData(slots[2]))
        IN  /\ slots[1].key = NullKey /\ slots[3].key = NullKey
            /\ slots[2].key = getPageQuery(listContextParams, pageSize + 1,
                                           CurAnchor.startRow, CurAnchor.kind)
            /\ returned <= pageSize + 1
            /\ CurWindow.rowsLength = Min(returned, pageSize)
            /\ Cardinality({i \in -MaxTotal..MaxTotal :
                               rowAt(CurAnchor, pageSize, slots, i) # Undefined})
                  = CurWindow.rowsLength
            /\ CurAnchor.kind = "forward" =>
                  (CurWindow.atEnd <=> (IsComplete(slots[2]) /\ returned <= pageSize))
            /\ CurAnchor.kind = "backward" =>
                  /\ CurWindow.atStart <=> (IsComplete(slots[2]) /\ returned <= pageSize)
                  /\ ~CurWindow.atEnd

\* A complete backward window that reaches the start of the list, and whose
\* query returned a full page.
C26_Witness ==
    /\ mounted /\ CurAnchor.kind = "backward"
    /\ IsComplete(slots[2])
    /\ Len(PageData(slots[2])) = pageSize
    /\ CurWindow.atStart

\* C27: for a backward anchor at index a with n loaded records the window
\* starts at a - n and rowAt(i) is the local record a - i - 1 for
\* a - n <= i < a and absent for every other index; for a permalink anchor the
\* window starts at a minus the number of records it serves below the target,
\* at most half a page; for a forward anchor it starts at a.
C27_FirstIndexAndBackwardRows ==
    mounted =>
        LET a == CurAnchor.index
            n == CurWindow.rowsLength
            below == {i \in LoadedIndices :
                        i < a /\ rowAt(CurAnchor, pageSize, slots, i) # Undefined}
        IN  /\ CurAnchor.kind = "backward" =>
                  /\ CurWindow.firstRowIndex = a - n
                  /\ \A i \in LoadedIndices :
                        rowAt(CurAnchor, pageSize, slots, i)
                          = IF a - n <= i /\ i < a
                            THEN PageData(slots[2])[(a - i - 1) + 1]
                            ELSE Undefined
            /\ IsPermalink(CurAnchor) =>
                  /\ CurWindow.firstRowIndex = a - Cardinality(below)
                  /\ Cardinality(below) <= HalfPageSize(pageSize)
            /\ CurAnchor.kind = "forward" => CurWindow.firstRowIndex = a

\* A backward window of several records, whose first index is above 0.
C27_Witness ==
    /\ mounted /\ CurAnchor.kind = "backward"
    /\ CurWindow.rowsLength >= 2
    /\ CurWindow.firstRowIndex > 0
    /\ rowAt(CurAnchor, pageSize, slots, CurAnchor.index - 2)
          = PageData(slots[2])[2]

\* The records the hooks of the last render have fetched.
FetchedBefore == Len(PageData(slots[2]))
FetchedAfter == Len(PageData(slots[3]))
FetchedTarget == IF SingleData(slots[1]) # Undefined THEN 1 ELSE 0

\* C28, as stated: for a permalink anchor with page size P the before page is
\* requested with limit P/2 + 1, the after page with limit P/2, and the three
\* queries of the anchor fetch at most P + 1 records.
C28_FetchedAtMostPagePlusOne ==
    (mounted /\ IsPermalink(CurAnchor)) =>
        LET half == HalfPageSize(pageSize)
        IN  /\ slots[2].key # NullKey => slots[2].key.limit = half + 1
            /\ slots[3].key # NullKey => slots[3].key.limit = half
            /\ FetchedBefore + FetchedAfter + FetchedTarget <= pageSize + 1

\* C28, amended: the before page is requested with limit P/2 + 1 backward from
\* the target, the after page with limit P/2 forward from it; the two pages
\* together fetch at most P + 1 records, and with the target the lookup
\* fetches the anchor's queries fetch at most P + 2.
C28_PagesFetchAtMostPagePlusOne ==
    (mounted /\ IsPermalink(CurAnchor)) =>
        LET half == HalfPageSize(pageSize)
            target == SingleData(slots[1])
        IN  /\ slots[1].key = getSingleQuery(CurAnchor.id)
            /\ slots[2].key \in {NullKey, getPageQuery(listContextParams, half + 1,
                                                      target, "backward")}
            /\ slots[3].key \in {NullKey, getPageQuery(listContextParams, half,
                                                      target, "forward")}
            /\ (target # Undefined) <=> (slots[2].key # NullKey /\ slots[3].key # NullKey)
            /\ FetchedBefore <= half + 1
            /\ FetchedAfter <= half
            /\ FetchedBefore + FetchedAfter <= pageSize + 1
            /\ FetchedBefore + FetchedAfter + FetchedTarget <= pageSize + 2

\* Both pages of a target in the middle of a long list have arrived in full.
C28_Witness ==
    /\ mounted /\ IsPermalink(CurAnchor)
    /\ IsComplete(slots[2]) /\ IsComplete(slots[3])
    /\ FetchedBefore = HalfPageSize(pageSize) + 1
    /\ FetchedAfter = HalfPageSize(pageSize)
    /\ FetchedTarget = 1

\* C29, as stated: for a permalink anchor complete is true exactly when the
\* lookup is complete and the target is absent or both pages are complete, and
\* atStart / atEnd are true only when the respective page is complete and
\* returned fewer records than requested.
C29_BoundaryOnlyFromCompletePage ==
    (mounted /\ IsPermalink(CurAnchor)) =>
        LET half == HalfPageSize(pageSize)
            absent == IsComplete(slots[1]) /\ SingleData(slots[1]) = Undefined
        IN  /\ CurWindow.complete
                  <=> (IsComplete(slots[1])
                       /\ (absent \/ (IsComplete(slots[2]) /\ IsComplete(slots[3]))))
            /\ CurWindow.atStart => (IsComplete(slots[2]) /\ FetchedBefore <= half)
            /\ CurWindow.atEnd => (IsComplete(slots[3]) /\ FetchedAfter <= half - 1)

\* C29, amended: complete as stated; atStart / atEnd are true exactly when the
\* lookup is complete without a target, or the respective page is complete and
\* returned fewer records than requested; a window reports neither complete
\* nor a boundary from a query that is subscribed and has not completed.
C29_BoundaryFromCompletePageOrAbsentTarget ==
    (mounted /\ IsPermalink(CurAnchor)) =>
        LET half == HalfPageSize(pageSize)
            absent == IsComplete(slots[1]) /\ SingleData(slots[1]) = Undefined
        IN  /\ CurWindow.complete
                  <=> (IsComplete(slots[1])
                       /\ (absent \/ (IsComplete(slots[2]) /\ IsComplete(slots[3]))))
            /\ CurWindow.atStart
                  <=> (absent \/ (IsComplete(slots[2]) /\ FetchedBefore <= half))
            /\ CurWindow.atEnd
                  <=> (absent \/ (IsComplete(slots[3]) /\ FetchedAfter <= half - 1))
            /\ absent => (slots[2].key = NullKey /\ slots[3].key = NullKey)
            /\ CurWindow.complete
                  => \A i \in 1..3 : slots[i].key = NullKey \/ IsComplete(slots[i])
            /\ CurWindow.atStart => (slots[2].key = NullKey \/ IsComplete(slots[2]))
            /\ CurWindow.atEnd => (slots[3].key = NullKey \/ IsComplete(slots[3]))

\* The window of a target near the start of a long list: the before page is
\* complete and short, the after page has arrived in full and is not yet
\* complete.
C29_Witness ==
    /\ mounted /\ IsPermalink(CurAnchor)
    /\ IsComplete(slots[1]) /\ SingleData(slots[1]) # Undefined
    /\ IsComplete(slots[2]) /\ slots[3].st = "rows"
    /\ FetchedAfter = HalfPageSize(pageSize)
    /\ CurWindow.atStart /\ ~CurWindow.atEnd /\ ~CurWindow.complete

\* Helpers: the last render's window lies below index 0 and the shift effect
\* is due; the shiftAnchorDown that answers it.
ShiftDue ==
    /\ mounted /\ ~failed
    /\ isListContextCurrent(state, listContextParams)
    /\ ~CurWindow.rowsEmpty
    /\ CurWindow.firstRowIndex < 0
    /\ state.pendingScrollAdjustment = 0
ShiftOffset ==
    -CurWindow.firstRowIndex
      + (IF CurWindow.atStart THEN 0 ELSE NUM_ROWS_FOR_LOADING_SKELETON)

ShiftDispatched ==
    \E i \in 1..Len(pending) :
        /\ pending[i].type = "SHIFT_ANCHOR_DOWN"
        /\ pending[i].offset = ShiftOffset
        /\ pending[i].anchor = [CurAnchor EXCEPT !.index = @ + ShiftOffset]

C30_ShiftAloneRestoresFirstIndex ==
    /\ []((ShiftDue /\ state.pagingPhase # "skipping") => ShiftDispatched)
    /\ [][(/\ Reducing /\ HasType(pending, "SHIFT_ANCHOR_DOWN")
            /\ ~HasType(pending, "UPDATE_ANCHOR")
            /\ isListContextCurrent(state', listContextParams'))
           => NextWindow.firstRowIndex >= 0]_vars

\* Helpers: the next render would take the estimate past the bound of the
\* model; the last render of a measured list shows a window that reports
\* atStart away from index 0.
Capped == Reduce(state, pending).estimatedTotal > MaxTotal
AtStartOff ==
    /\ mounted /\ viewportRows > 0
    /\ isListContextCurrent(state, listContextParams)
    /\ CurWindow.atStart
    /\ CurWindow.firstRowIndex # 0

\* C31: a window with rows that reports atStart away from index 0 is
\* eventually followed by a window whose firstIndex is 0; when its firstIndex
\* is above 0 (no compensation pending, phase not skipping) the render has
\* dispatched resetToTop(-firstIndex), and the render that reduces it has the
\* top anchor and that compensation pending.
C31_AtStartEndsAtIndexZero ==
    /\ []((/\ AtStartOff /\ ~failed /\ ~CurWindow.rowsEmpty
            /\ CurWindow.firstRowIndex > 0
            /\ state.pendingScrollAdjustment = 0 /\ state.pagingPhase # "skipping")
           => \E i \in 1..Len(pending) :
                 /\ pending[i].type = "RESET_TO_TOP"
                 /\ pending[i].offset = -CurWindow.firstRowIndex)
    /\ [][(/\ Reducing /\ HasType(pending, "RESET_TO_TOP")
            /\ ~HasType(pending, "RESET_STATE")
            /\ isListContextCurrent(state', listContextParams'))
           => /\ NextAnchor = TOP_ANCHOR
              /\ state'.pendingScrollAdjustment = -CurWindow.firstRowIndex]_vars
    /\ (AtStartOff /\ CurWindow.rowsLength > 0)
          ~> (CurWindow.firstRowIndex = 0 \/ failed \/ Capped)

\* The dispatch and the reduction of resetToTop alone.
C31_ResetToTopDispatched ==
    /\ []((/\ AtStartOff /\ ~failed /\ ~CurWindow.rowsEmpty
            /\ CurWindow.firstRowIndex > 0
            /\ state.pendingScrollAdjustment = 0 /\ state.pagingPhase # "skipping")
           => \E i \in 1..Len(pending) :
                 /\ pending[i].type = "RESET_TO_TOP"
                 /\ pending[i].offset = -CurWindow.firstRowIndex)
    /\ [][(/\ Reducing /\ HasType(pending, "RESET_TO_TOP")
            /\ ~HasType(pending, "RESET_STATE")
            /\ isListContextCurrent(state', listContextParams'))
           => /\ NextAnchor = TOP_ANCHOR
              /\ state'.pendingScrollAdjustment = -CurWindow.firstRowIndex]_vars

\* C32: every nonzero pendingScrollAdjustment is applied exactly once.  The
\* render that finds one pending (the list-context current) moves the scroll
\* offset by it, as far as the scroll element allows, and dispatches
\* scrollAdjusted first of all; the next render reduces it: the pending value
\* is added to estimatedTotal, pendingScrollAdjustment is 0 and the phase is
\* skipping.  A pending value arises only from 0 and only by shiftAnchorDown
\* or resetToTop, so none is applied twice and none is dropped.
C32_AdjustmentAppliedOnce ==
    /\ []((mounted /\ ~failed /\ state.pendingScrollAdjustment # 0)
            => /\ pending # <<>> /\ Head(pending).type = "SCROLL_ADJUSTED"
               /\ Cardinality({i \in 1..Len(pending) :
                                  pending[i].type = "SCROLL_ADJUSTED"}) = 1)
    /\ []((mounted /\ ~failed /\ state.pendingScrollAdjustment = 0)
            => ~HasType(pending, "SCROLL_ADJUSTED"))
    /\ [][(/\ (Render \/ QueryProgress)
            /\ state'.pendingScrollAdjustment # 0
            /\ isListContextCurrent(state', listContextParams'))
           => scrollOffset' = ClampScroll(scrollOffset + state'.pendingScrollAdjustment,
                                          NextCount, viewportRows')]_vars
    /\ [][(Reducing /\ state.pendingScrollAdjustment # 0)
           => /\ state'.pendingScrollAdjustment = 0
              /\ state'.pagingPhase = "skipping"
              /\ ~HasType(pending, "RESET_STATE")
                    => state'.estimatedTotal
                         = MaxCandidate(state.estimatedTotal + state.pendingScrollAdjustment,
                                        Tail(pending))]_vars
    /\ [][(Reducing /\ state'.pendingScrollAdjustment # 0)
           => /\ state.pendingScrollAdjustment = 0
              /\ Shifting(pending)]_vars

\* A compensation has been applied: the scroll offset has moved with it and
\* scrollAdjusted is about to fold it into the estimate.
C32_Witness ==
    /\ mounted /\ ~failed
    /\ state.pendingScrollAdjustment > 0
    /\ scrollOffset >= state.pendingScrollAdjustment
    /\ viewportRows > 0
    /\ Head(pending).type = "SCROLL_ADJUSTED"

\* ---------------------------------------------------------------------- C33
\* The values the edge effect of the last render worked with: the rendered
\* scroll offset, the first and last rendered index, the threshold.
EdgeCycle ==
    /\ mounted
    /\ isListContextCurrent(state, listContextParams)
    /\ HasVirtualItems(CurCount, viewportRows)
    /\ CurWindow.complete
    /\ state.pagingPhase = "idle"
    /\ state.pendingScrollAdjustment = 0
EdgeThreshold == (pageSize + 9) \div 10
FirstRendered == FirstItem(CurCount, timer.scroll, viewportRows)
LastRendered == LastItem(CurCount, timer.scroll, viewportRows)
WindowEnd == CurWindow.firstRowIndex + CurWindow.rowsLength
NearStart == ~CurWindow.atStart /\ FirstRendered - CurWindow.firstRowIndex <= EdgeThreshold
NearEnd == ~CurWindow.atEnd /\ WindowEnd - LastRendered <= EdgeThreshold
ClampIntoWindow(i) ==
    IF CurWindow.rowsLength = 0 THEN CurWindow.firstRowIndex
    ELSE Max(CurWindow.firstRowIndex, Min(WindowEnd - 1, i))
UpdatesAnchor == {i \in 1..Len(pending) : pending[i].type = "UPDATE_ANCHOR"}
EdgeUpdate(kind, seedIndex, index) ==
    /\ UpdatesAnchor = {Len(pending)}
    /\ Last(pending).anchor.kind = kind
    /\ Last(pending).anchor.index = index
    /\ Last(pending).anchor.startRow # Undefined
    /\ Last(pending).anchor.startRow = rowAt(CurAnchor, pageSize, slots, seedIndex)

TotalUpdates == {i \in 1..Len(pending) : pending[i].type = "UPDATE_ESTIMATED_TOTAL"}
DispatchedFromCompleteWindow ==
    (mounted /\ TotalUpdates # {})
        => /\ CurWindow.complete
           /\ \A i \in TotalUpdates : pending[i].newTotal = newEstimatedTotal(CurWindow)
CoversCompleteWindow ==
    (mounted /\ pending = <<>> /\ CurWindow.complete)
        => state.estimatedTotal >= newEstimatedTotal(CurWindow)
RaisedOverPartialWindow ==
    /\ mounted /\ Reducing
    /\ ~CurWindow.complete
    /\ ~HasType(pending, "RESET_STATE")
    /\ state'.estimatedTotal > state.estimatedTotal

\* C34 as stated: updateEstimatedTotal(firstIndex + windowLength) is
\* dispatched only by a render whose window is complete; a render whose
\* window is partially loaded is never followed by a raised estimatedTotal;
\* and once a render has seen a complete window and has nothing left to
\* dispatch, the estimate is at least firstIndex + windowLength.
C34_EstimateOnlyFromCompleteWindow ==
    /\ []DispatchedFromCompleteWindow
    /\ []CoversCompleteWindow
    /\ [][~RaisedOverPartialWindow]_vars

\* C34, with the one way the estimate rises over a partially loaded window:
\* a pending scroll compensation is folded in by scrollAdjusted, and the
\* estimate rises by exactly that compensation.
C34_EstimateFromCompleteWindowOrCompensation ==
    /\ []DispatchedFromCompleteWindow
    /\ []CoversCompleteWindow
    /\ [][RaisedOverPartialWindow
            => /\ state.pendingScrollAdjustment > 0
               /\ Head(pending).type = "SCROLL_ADJUSTED"
               /\ TotalUpdates = {}
               /\ state'.estimatedTotal
                    = state.estimatedTotal + state.pendingScrollAdjustment]_vars

\* A complete window reaching beyond the estimate has been seen and the
\* estimate is about to be advanced to its end.
C34_Witness ==
    /\ mounted /\ ~failed
    /\ CurWindow.complete /\ CurWindow.rowsLength > 1
    /\ newEstimatedTotal(CurWindow) > state.estimatedTotal
    /\ TotalUpdates # {}
    /\ Reduce(state, pending).estimatedTotal = newEstimatedTotal(CurWindow)

\* ---------------------------------------------------------------------- C35
\* A hook that has been constructed and not yet rendered, without and with a
\* snapshot passed as permalinkState.
FreshInstance == ~mounted /\ ~saved.used
Reconstructed == mounted /\ ~mounted'

\* C35: the initial state is chosen by precedence snapshot > permalink id >
\* top.  With a snapshot its anchor, estimate, flags and scroll offset are
\* used, whatever the permalink id; with only a permalink id the anchor is a
\* permalink anchor at index 1, the scroll offset one row and the flags
\* false; otherwise the anchor is the top forward anchor at index 0 with
\* scroll offset 0.  Phase is idle and pendingScrollAdjustment 0 in all cases.
C35_InitialStateByPrecedence ==
    /\ [](~mounted => /\ state.pagingPhase = "idle"
                      /\ state.pendingScrollAdjustment = 0
                      /\ state.queryAnchor.listContextParams = listContextParams
                      /\ pending = <<>>)
    /\ []((FreshInstance /\ permalinkID # 0)
            => /\ state.queryAnchor.anchor.kind = "permalink"
               /\ state.queryAnchor.anchor.id = permalinkID
               /\ state.queryAnchor.anchor.index = 1
               /\ scrollOffset = 1
               /\ ~state.hasReachedStart /\ ~state.hasReachedEnd)
    /\ []((FreshInstance /\ permalinkID = 0)
            => /\ state.queryAnchor.anchor.kind = "forward"
               /\ state.queryAnchor.anchor.index = 0
               /\ state.queryAnchor.anchor.startRow = Undefined
               /\ scrollOffset = 0
               /\ ~state.hasReachedStart /\ ~state.hasReachedEnd)
    /\ [][Reconstructed
            => /\ saved.snap.some
               /\ state'.queryAnchor.anchor = saved.snap.anchor
               /\ state'.estimatedTotal = saved.snap.estimatedTotal
               /\ state'.hasReachedStart = saved.snap.hasReachedStart
               /\ state'.hasReachedEnd = saved.snap.hasReachedEnd
               /\ scrollOffset' = saved.snap.scrollTop]_vars

\* A hook constructed with a snapshot and a permalink id: the snapshot's
\* anchor, which is not the permalink anchor of that id, is in the state.
C35_Witness ==
    /\ ~mounted /\ saved.used
    /\ permalinkID # 0
    /\ state.queryAnchor.anchor # createPermalinkAnchor(permalinkID)
    /\ scrollOffset # 1

\* ---------------------------------------------------------------------- C36
\* The phase changes the claim allows for one reduced action.
PhaseChangeAllowed(from, type, to) ==
    \/ to = from
    \/ from = "idle" /\ to = "adjusting" /\ type \in {"SHIFT_ANCHOR_DOWN", "RESET_TO_TOP"}
    \/ from = "adjusting" /\ to = "skipping" /\ type = "SCROLL_ADJUSTED"
    \/ from = "skipping" /\ to = "idle" /\ type = "PAGING_COMPLETE"
    \/ to = "skipping" /\ type = "RESET_STATE"
\* The phases a state passes through while a queue of actions is reduced.
RECURSIVE PhasePathAllowed(_, _)
PhasePathAllowed(s, q) ==
    \/ q = <<>>
    \/ /\ PhaseChangeAllowed(s.pagingPhase, Head(q).type,
                             pagingReducer(s, Head(q)).pagingPhase)
       /\ PhasePathAllowed(pagingReducer(s, Head(q)), Tail(q))

\* C36: the phase of one instance of the hook changes only by reducing
\* dispatched actions, and each reduced action changes it only along
\* idle -> adjusting (shiftAnchorDown, resetToTop), adjusting -> skipping
\* (scrollAdjusted), skipping -> idle (pagingComplete) or to skipping
\* (resetState); pagingComplete is dispatched only by a render in phase
\* skipping without a pending adjustment, scrollAdjusted only by a render
\* with a pending adjustment.
C36_PhaseCycle ==
    /\ [][(mounted' /\ state'.pagingPhase # state.pagingPhase)
            => state' = Reduce(state, pending)]_vars
    /\ [][state' = Reduce(state, pending) => PhasePathAllowed(state, pending)]_vars
    /\ [](HasType(pending, "PAGING_COMPLETE")
            => state.pagingPhase = "skipping" /\ state.pendingScrollAdjustment = 0)
    /\ [](HasType(pending, "SCROLL_ADJUSTED") => state.pendingScrollAdjustment # 0)

\* A whole cycle has run: the permalink anchor was shifted down with a
\* compensation, the compensation was folded in, and pagingComplete is
\* about to return the phase to idle.
C36_Witness ==
    /\ mounted /\ ~failed
    /\ state.pagingPhase = "skipping"
    /\ state.queryAnchor.anchor.kind = "permalink"
    /\ state.queryAnchor.anchor.index > NUM_ROWS_FOR_LOADING_SKELETON
    /\ state.estimatedTotal > NUM_ROWS_FOR_LOADING_SKELETON
    /\ HasType(pending, "PAGING_COMPLETE")

\* ---------------------------------------------------------------------- C37
\* C37: a render in phase adjusting has a nonzero pending adjustment and is
\* followed by the reduction of scrollAdjusted; a render in phase skipping
\* under the current list-context over a list that is not empty is followed,
\* once the queries have completed, by pagingComplete and phase idle (unless
\* an assertion has failed or the estimate has left the modelled range).
C37_CompensationCycleSettles ==
    /\ []((mounted /\ state.pagingPhase = "adjusting")
            => state.pendingScrollAdjustment # 0)
    /\ (mounted /\ state.pagingPhase = "adjusting")
          ~> (state.pagingPhase = "skipping" \/ failed \/ Capped)
    /\ (/\ mounted /\ state.pagingPhase = "skipping"
        /\ isListContextCurrent(state, listContextParams)
        /\ numRows > 0)
          ~> (state.pagingPhase = "idle" \/ failed \/ Capped)

\* The part of C37 that holds: phase adjusting is always left for skipping,
\* and phase skipping under the current list-context is left for idle unless
\* the window reports rowsEmpty.
C37_SettlesUnlessRowsEmpty ==
    /\ (mounted /\ state.pagingPhase = "adjusting")
          ~> (state.pagingPhase = "skipping" \/ failed \/ Capped)
    /\ (/\ mounted /\ state.pagingPhase = "skipping"
        /\ isListContextCurrent(state, listContextParams))
          ~> (\/ state.pagingPhase = "idle" \/ failed \/ Capped
              \/ (CurWindow.rowsEmpty /\ isListContextCurrent(state, listContextParams)))

\* ---------------------------------------------------------------------- C38
\* A render under the same list-context reduces the dispatched actions, no
\* resetState among them.
ReducedInContext ==
    /\ mounted /\ mounted' /\ ~failed'
    /\ state' = Reduce(state, pending)
    /\ listContextParams' = listContextParams
    /\ isListContextCurrent(state, listContextParams)
    /\ ~HasType(pending, "RESET_STATE")
EdgeUpdateReduced ==
    \E k \in 1..Len(pending) :
        /\ pending[k].type = "UPDATE_ANCHOR"
        /\ pending[k].anchor.startRow # Undefined
\* Every record loaded at index i before the render and loaded at index
\* i + d after it is the same record.
IndicesMovedBy(d) ==
    \A i \in LoadedIndices :
        (/\ rowAt(CurAnchor, pageSize, slots, i) # Undefined
         /\ rowAt(NextAnchor, pageSize', slots', i + d) # Undefined)
            => rowAt(NextAnchor, pageSize', slots', i + d)
                 = rowAt(CurAnchor, pageSize, slots, i)

C38_IndicesKeptByUpdateAnchor ==
    /\ [][(ReducedInContext /\ EdgeUpdateReduced) => IndicesMovedBy(0)]_vars
    /\ [][(ReducedInContext /\ HasType(pending, "SHIFT_ANCHOR_DOWN")
                            /\ ~HasType(pending, "UPDATE_ANCHOR"))
            => IndicesMovedBy(state'.pendingScrollAdjustment)]_vars

\* ---------------------------------------------------------------------- C39
ShiftAnchors ==
    {pending[k].anchor : k \in {j \in 1..Len(pending) :
                                  pending[j].type \in {"SHIFT_ANCHOR_DOWN", "RESET_TO_TOP"}}}

AtEndNow ==
    mounted /\ isListContextCurrent(state, listContextParams) /\ CurWindow.atEnd
AtStartNow ==
    mounted /\ isListContextCurrent(state, listContextParams) /\ CurWindow.atStart

\* C40: while the window of the current list-context reports atEnd (atStart)
\* and keeps reporting it, hasReachedEnd (hasReachedStart) eventually becomes
\* true, also after a list-context change has reset the flag (unless an
\* assertion has failed or the estimate has left the modelled range).
C40_StickyFlagsCatchUp ==
    /\ AtEndNow ~> (state.hasReachedEnd \/ ~AtEndNow \/ failed \/ Capped)
    /\ AtStartNow ~> (state.hasReachedStart \/ ~AtStartNow \/ failed \/ Capped)

====
